---- MODULE Spec2Model ----
(***************************************************************************)
(* Durable video store (src/lib/video-storage.ts) and upload retry queue   *)
(* (src/lib/upload-queue.ts) of the recorder app, with the page handlers   *)
(* that drive them (record page and gallery page).                         *)
(*                                                                         *)
(* One JavaScript context, cooperative scheduling: every action below is   *)
(* the code that runs between two awaits of one async function, together   *)
(* with the effect of the I/O request it resumes from.  Durable state      *)
(* (IndexedDB stores, OPFS files) survives Crash; everything else is lost. *)
(* Times are milliseconds.                                                 *)
(***************************************************************************)
EXTENDS Naturals, Integers, Sequences, FiniteSets, TLC

(* ---------------------------- bounds ----------------------------------- *)
MaxTime == 64000        \* no retry is awaited beyond this time
FineTime == 2000        \* the clock is followed step by step up to this time
MaxCrashes == 1         \* process kills explored
MaxRetries == 1         \* manual retryVideo calls explored
MaxChunks == 3          \* chunks delivered by one recording
MaxFaults == 1          \* storage requests that fail

(* ------------------------ program constants ---------------------------- *)
MAX_RETRY_ATTEMPTS == 5
BASE_DELAY == 1000

Videos == {"v1", "v2"}
VideoOrder == <<"v1", "v2">>      \* key order of an IndexedDB getAll()
Bytes == {0, 1}
Invokers == {"timer", "start", "retry"}   \* call sites of processQueue

Null == << >>                     \* null / undefined result
Some(x) == <<x>>
NullDate == -1                    \* lastAttempt: Date | null
Undefined == "undefined"          \* an absent optional string field

VARIABLES
  \* durable
  meta,              \* IndexedDB store video-metadata: id -> VideoMetadata
  idbVideo,          \* IndexedDB store video-data:     id -> blob
  opfs,              \* OPFS directory:                 id -> file content
  queue,             \* IndexedDB store upload-queue:   id -> UploadQueueItem
  \* the environment
  clock,             \* Date.now()
  hasOPFS,           \* 'getDirectory' in navigator.storage
  hasStorage,        \* 'storage' in navigator
  timers,            \* number of active interval timers of the page
  \* VideoStorage fields
  storageDb,         \* this.db !== null
  opfsRoot,          \* this.opfsRoot !== null
  supportsOPFS,
  \* UploadQueue fields
  queueDb,           \* this.db !== null
  isProcessing,
  processingInterval,\* an interval timer is set
  \* one processQueue invocation per call site
  pc, queueItems, idx, passNow, metadata, videoBlob,
  \* page handlers
  loadPc,            \* loadVideos / init effect
  capPc, capId, capBlob,   \* mediaRecorder.onstop
  retryPc, retryId, retryItem,   \* uploadQueue.retryVideo
  retryStatus,       \* status of the record when retryVideo was called
  failedList,        \* retryAllFailed: the records of `failed` still to retry
  delPc, delId,      \* handleDeleteVideo
  delAgain,          \* deleteVideo had already returned for delId before
  \* recording in progress (mediaRecorder.ondataavailable)
  recId,             \* videoId of the recording, "none" when not recording
  chunksRef,         \* chunks delivered so far
  chunkIndex,        \* chunks saved so far
  chunkPc, chunkFile,\* the running saveVideoChunk and the file content it read
  chunkCall,         \* its arguments: videoId, chunk, isFirstChunk
  \* history
  recorded,          \* ids already given to a recording
  invoked,           \* id -> number of upload calls started
  uploaded,          \* id -> number of upload calls that succeeded
  lastOp,            \* the latest delete call that returned
  deleted,           \* ids for which a deleteVideo call has returned
  crashes, retries,
  faults,            \* storage requests that have failed
  rejectedAt         \* the step at which a processQueue call last rejected

durable == <<meta, idbVideo, opfs, queue>>
storageFields == <<storageDb, opfsRoot, supportsOPFS>>
queueFields == <<queueDb, isProcessing, processingInterval>>
passVars == <<pc, queueItems, idx, passNow, metadata, videoBlob>>
loadVars == <<loadPc>>
capVars == <<capPc, capId, capBlob>>
retryVars == <<retryPc, retryId, retryItem, retryStatus, failedList>>
delVars == <<delPc, delId, delAgain>>
recVars == <<recId, chunksRef, chunkIndex, chunkPc, chunkFile, chunkCall>>
history == <<recorded, invoked, uploaded, lastOp, deleted, crashes, retries,
            faults, rejectedAt>>
env == <<clock, hasOPFS, hasStorage, timers>>

vars == <<durable, env, storageFields, queueFields, passVars, loadVars,
          capVars, retryVars, delVars, recVars, history>>

(* --------------------------- key-value stores -------------------------- *)
Put(store, key, value) ==
  [k \in DOMAIN store \cup {key} |-> IF k = key THEN value ELSE store[k]]

Delete(store, key) ==
  [k \in DOMAIN store \ {key} |-> store[k]]

Get(store, key) ==
  IF key \in DOMAIN store THEN Some(store[key]) ELSE Null

Empty == [k \in {} |-> 0]

(* ------------------------------ VideoStorage --------------------------- *)
UseOPFS == supportsOPFS /\ opfsRoot

GetFromOPFS(videoId) ==
  IF ~opfsRoot THEN Null ELSE Get(opfs, videoId)

GetFromIndexedDB(videoId) == Get(idbVideo, videoId)

GetVideo(videoId) ==
  IF UseOPFS THEN GetFromOPFS(videoId) ELSE GetFromIndexedDB(videoId)

GetMetadata(videoId) == Get(meta, videoId)

(* the record the record page builds in onstop *)
InitialMetadata(videoId) ==
  [id |-> videoId, status |-> "pending", uploadAttempts |-> 0, error |-> Undefined]

(* ------------------------------ UploadQueue ---------------------------- *)
NewQueueItem_NoRetryDate(videoId) ==
  [videoId |-> videoId, attempts |-> 0, lastAttempt |-> NullDate,
   nextRetry |-> NullDate, error |-> Undefined]

(* upload-queue.ts:39-44 *)
NewQueueItem(videoId) ==
  [videoId |-> videoId, attempts |-> 0, lastAttempt |-> NullDate,
   nextRetry |-> clock, error |-> Undefined]

GetQueueItem(videoId) == Get(queue, videoId)

GetAllQueueItems ==
  LET keys == SelectSeq(VideoOrder, LAMBDA v : v \in DOMAIN queue)
  IN  [i \in 1..Len(keys) |-> queue[keys[i]]]

RECURSIVE Pow2(_)
Pow2(n) == IF n = 0 THEN 1 ELSE 2 * Pow2(n - 1)

calculateBackoff(attempts) == BASE_DELAY * Pow2(attempts)


(* ------------------------------- Init ---------------------------------- *)
NoTask == [p \in Invokers |-> "idle"]

MemoryInit ==
  /\ storageDb = FALSE /\ opfsRoot = FALSE /\ supportsOPFS = FALSE
  /\ queueDb = FALSE /\ isProcessing = FALSE /\ processingInterval = FALSE
  /\ timers = 0
  /\ pc = NoTask
  /\ queueItems = [p \in Invokers |-> << >>]
  /\ idx = [p \in Invokers |-> 0]
  /\ passNow = [p \in Invokers |-> 0]
  /\ metadata = [p \in Invokers |-> Null]
  /\ videoBlob = [p \in Invokers |-> Null]
  /\ loadPc = "idle"
  /\ capPc = "idle" /\ capId = "none" /\ capBlob = << >>
  /\ retryPc = "idle" /\ retryId = "none" /\ retryItem = Null /\ retryStatus = "none"
  /\ failedList = Null
  /\ delPc = "idle" /\ delId = "none" /\ delAgain = FALSE
  /\ recId = "none" /\ chunksRef = << >> /\ chunkIndex = 0
  /\ chunkPc = "idle" /\ chunkFile = << >> /\ chunkCall = Null

Init ==
  /\ meta = Empty /\ idbVideo = Empty /\ opfs = Empty /\ queue = Empty
  /\ clock = 0
  /\ hasOPFS \in BOOLEAN /\ hasStorage = TRUE
  /\ MemoryInit
  /\ recorded = {}
  /\ invoked = [v \in Videos |-> 0]
  /\ uploaded = [v \in Videos |-> 0]
  /\ lastOp = [op |-> "none", id |-> "none", threw |-> FALSE, found |-> FALSE]
  /\ deleted = {}
  /\ crashes = 0 /\ retries = 0
  /\ faults = 0 /\ rejectedAt = "none"

(* --------------------------- processQueue ------------------------------ *)
(* upload-queue.ts:117  if (this.isProcessing) return; *)
AlreadyProcessing_Unguarded == FALSE

AlreadyProcessing == isProcessing

InBody(p) == pc[p] # "idle"

(* A call of processQueue from call site p: lines 117-122 up to the first  *)
(* await.  Sets pc and isProcessing.                                       *)
CallProcessQueue(p) ==
  IF AlreadyProcessing
  THEN UNCHANGED <<pc, isProcessing>>
  ELSE /\ pc[p] = "idle"
       /\ pc' = [pc EXCEPT ![p] = "getAll"]
       /\ isProcessing' = TRUE

Item(p) == queueItems[p][idx[p]]

(* the loop moves to the next snapshot entry *)
NextItem(p) ==
  /\ pc' = [pc EXCEPT ![p] = "loop"]
  /\ idx' = [idx EXCEPT ![p] = idx[p] + 1]
  /\ metadata' = [metadata EXCEPT ![p] = Null]
  /\ videoBlob' = [videoBlob EXCEPT ![p] = Null]

(* upload-queue.ts:122-123 *)
PassGetAll(p) ==
  /\ pc[p] = "getAll"
  /\ queueItems' = [queueItems EXCEPT ![p] = GetAllQueueItems]
  /\ passNow' = [passNow EXCEPT ![p] = clock]
  /\ idx' = [idx EXCEPT ![p] = 1]
  /\ pc' = [pc EXCEPT ![p] = "loop"]
  /\ UNCHANGED <<durable, env, storageFields, queueFields, metadata, videoBlob,
                 loadVars, capVars, retryVars, delVars, recVars, history>>

NotYetDue_BelowCeilingOnly(item, now) ==
  item.attempts < MAX_RETRY_ATTEMPTS /\ item.nextRetry # NullDate /\ item.nextRetry > now

(* upload-queue.ts:127 *)
NotYetDue(item, now) == item.nextRetry # NullDate /\ item.nextRetry > now

AtCeiling_Never(item) == FALSE

(* upload-queue.ts:132 *)
AtCeiling(item) == item.attempts >= MAX_RETRY_ATTEMPTS

(* upload-queue.ts:125-129  continue *)
PassSkip(p) ==
  /\ pc[p] = "loop" /\ idx[p] <= Len(queueItems[p])
  /\ NotYetDue(Item(p), passNow[p])
  /\ NextItem(p)
  /\ UNCHANGED <<durable, env, storageFields, queueFields, queueItems, passNow,
                 loadVars, capVars, retryVars, delVars, recVars, history>>

(* upload-queue.ts:132-134  getMetadata of the ceiling branch *)
CeilingGetMetadata(p) ==
  /\ pc[p] = "loop" /\ idx[p] <= Len(queueItems[p])
  /\ ~NotYetDue(Item(p), passNow[p])
  /\ AtCeiling(Item(p))
  /\ metadata' = [metadata EXCEPT ![p] = GetMetadata(Item(p).videoId)]
  /\ pc' = [pc EXCEPT ![p] = "maxGot"]
  /\ UNCHANGED <<durable, env, storageFields, queueFields, queueItems, idx, passNow,
                 videoBlob, loadVars, capVars, retryVars, delVars, recVars, history>>

(* upload-queue.ts:135-139  mark permanently failed *)
CeilingSave(p) ==
  /\ pc[p] = "maxGot" /\ metadata[p] # Null
  /\ LET md == [metadata[p][1] EXCEPT !.status = "failed",
                                      !.error = "Max retry attempts reached"]
     IN  /\ metadata' = [metadata EXCEPT ![p] = Some(md)]
         /\ meta' = Put(meta, md.id, md)
  /\ pc' = [pc EXCEPT ![p] = "maxSaved"]
  /\ UNCHANGED <<idbVideo, opfs, queue, env, storageFields, queueFields, queueItems,
                 idx, passNow, videoBlob, loadVars, capVars, retryVars, delVars,
                 recVars, history>>

(* upload-queue.ts:140-141  removeFromQueue; continue *)
CeilingRemove(p) ==
  /\ \/ pc[p] = "maxSaved"
     \/ pc[p] = "maxGot" /\ metadata[p] = Null
  /\ queue' = Delete(queue, Item(p).videoId)
  /\ NextItem(p)
  /\ UNCHANGED <<meta, idbVideo, opfs, env, storageFields, queueFields, queueItems,
                 passNow, loadVars, capVars, retryVars, delVars, recVars, history>>

(* upload-queue.ts:145, 153  attemptUpload: getMetadata *)
AttemptGetMetadata(p) ==
  /\ pc[p] = "loop" /\ idx[p] <= Len(queueItems[p])
  /\ ~NotYetDue(Item(p), passNow[p])
  /\ ~AtCeiling(Item(p))
  /\ metadata' = [metadata EXCEPT ![p] = GetMetadata(Item(p).videoId)]
  /\ pc' = [pc EXCEPT ![p] = "attGot"]
  /\ UNCHANGED <<durable, env, storageFields, queueFields, queueItems, idx, passNow,
                 videoBlob, loadVars, capVars, retryVars, delVars, recVars, history>>

AttemptNoRecord_KeepsJob(p) ==
  /\ pc[p] = "attGot" /\ metadata[p] = Null
  /\ NextItem(p)
  /\ UNCHANGED <<durable, env, storageFields, queueFields, queueItems,
                 passNow, loadVars, capVars, retryVars, delVars, recVars, history>>

(* upload-queue.ts:154-157  no record: drop the job *)
AttemptNoRecord(p) ==
  /\ pc[p] = "attGot" /\ metadata[p] = Null
  /\ queue' = Delete(queue, Item(p).videoId)
  /\ NextItem(p)
  /\ UNCHANGED <<meta, idbVideo, opfs, env, storageFields, queueFields, queueItems,
                 passNow, loadVars, capVars, retryVars, delVars, recVars, history>>

AttemptMarkUploading_CountsFromJob(p) ==
  /\ pc[p] = "attGot" /\ metadata[p] # Null
  /\ LET md == [metadata[p][1] EXCEPT !.status = "uploading",
                                      !.uploadAttempts = Item(p).attempts + 1]
     IN  /\ metadata' = [metadata EXCEPT ![p] = Some(md)]
         /\ meta' = Put(meta, md.id, md)
  /\ pc' = [pc EXCEPT ![p] = "marked"]
  /\ UNCHANGED <<idbVideo, opfs, queue, env, storageFields, queueFields, queueItems,
                 idx, passNow, videoBlob, loadVars, capVars, retryVars, delVars,
                 recVars, history>>

(* upload-queue.ts:159-163  status = uploading, uploadAttempts + 1 *)
AttemptMarkUploading(p) ==
  /\ pc[p] = "attGot" /\ metadata[p] # Null
  /\ LET md == [metadata[p][1] EXCEPT !.status = "uploading",
                                      !.uploadAttempts = @ + 1]
     IN  /\ metadata' = [metadata EXCEPT ![p] = Some(md)]
         /\ meta' = Put(meta, md.id, md)
  /\ pc' = [pc EXCEPT ![p] = "marked"]
  /\ UNCHANGED <<idbVideo, opfs, queue, env, storageFields, queueFields, queueItems,
                 idx, passNow, videoBlob, loadVars, capVars, retryVars, delVars,
                 recVars, history>>

(* upload-queue.ts:166-167, 177  getVideo; with a blob the upload is called *)
AttemptGetVideo(p) ==
  /\ pc[p] = "marked"
  /\ LET blob == GetVideo(Item(p).videoId)
     IN  /\ videoBlob' = [videoBlob EXCEPT ![p] = blob]
         /\ IF blob = Null
            THEN /\ pc' = [pc EXCEPT ![p] = "noBlob"]
                 /\ UNCHANGED invoked
            ELSE /\ pc' = [pc EXCEPT ![p] = "upload"]
                 /\ invoked' = [invoked EXCEPT ![Item(p).videoId] = @ + 1]
  /\ UNCHANGED <<durable, env, storageFields, queueFields, queueItems, idx, passNow,
                 metadata, loadVars, capVars, retryVars, delVars, recVars,
                 recorded, uploaded, lastOp, deleted, crashes, retries,
                 faults, rejectedAt>>

(* upload-queue.ts:168-170  payload missing: status = failed *)
AttemptNoBlobSave(p) ==
  /\ pc[p] = "noBlob"
  /\ LET md == [metadata[p][1] EXCEPT !.status = "failed",
                                      !.error = "Video file not found"]
     IN  /\ metadata' = [metadata EXCEPT ![p] = Some(md)]
         /\ meta' = Put(meta, md.id, md)
  /\ pc' = [pc EXCEPT ![p] = "noBlobSaved"]
  /\ UNCHANGED <<idbVideo, opfs, queue, env, storageFields, queueFields, queueItems,
                 idx, passNow, videoBlob, loadVars, capVars, retryVars, delVars,
                 recVars, history>>

AttemptNoBlobRemove_KeepsJob(p) ==
  /\ pc[p] = "noBlobSaved"
  /\ NextItem(p)
  /\ UNCHANGED <<durable, env, storageFields, queueFields, queueItems,
                 passNow, loadVars, capVars, retryVars, delVars, recVars, history>>

(* upload-queue.ts:171-172 *)
AttemptNoBlobRemove(p) ==
  /\ pc[p] = "noBlobSaved"
  /\ queue' = Delete(queue, Item(p).videoId)
  /\ NextItem(p)
  /\ UNCHANGED <<meta, idbVideo, opfs, env, storageFields, queueFields, queueItems,
                 passNow, loadVars, capVars, retryVars, delVars, recVars, history>>

(* upload-queue.ts:177, 211-228  the upload resolves true *)
UploadSucceeds(p) ==
  /\ pc[p] = "upload"
  /\ uploaded' = [uploaded EXCEPT ![Item(p).videoId] = @ + 1]
  /\ pc' = [pc EXCEPT ![p] = "succeeded"]
  /\ UNCHANGED <<durable, env, storageFields, queueFields, queueItems, idx, passNow,
                 metadata, videoBlob, loadVars, capVars, retryVars, delVars, recVars,
                 recorded, invoked, lastOp, deleted, crashes, retries,
                 faults, rejectedAt>>

SuccessSave_RemovesJobFirst(p) ==
  /\ pc[p] = "succeeded"
  /\ queue' = Delete(queue, Item(p).videoId)
  /\ pc' = [pc EXCEPT ![p] = "succSaved"]
  /\ UNCHANGED <<meta, idbVideo, opfs, env, storageFields, queueFields, queueItems,
                 idx, passNow, metadata, videoBlob, loadVars, capVars, retryVars,
                 delVars, recVars, history>>

(* upload-queue.ts:179-186  status = completed, error deleted *)
SuccessSave(p) ==
  /\ pc[p] = "succeeded"
  /\ LET md == [metadata[p][1] EXCEPT !.status = "completed", !.error = Undefined]
     IN  /\ metadata' = [metadata EXCEPT ![p] = Some(md)]
         /\ meta' = Put(meta, md.id, md)
  /\ pc' = [pc EXCEPT ![p] = "succSaved"]
  /\ UNCHANGED <<idbVideo, opfs, queue, env, storageFields, queueFields, queueItems,
                 idx, passNow, videoBlob, loadVars, capVars, retryVars, delVars,
                 recVars, history>>

SuccessRemove_DeletesPayload(p) ==
  /\ pc[p] = "succSaved"
  /\ queue' = Delete(queue, Item(p).videoId)
  /\ opfs' = Delete(opfs, Item(p).videoId)
  /\ idbVideo' = Delete(idbVideo, Item(p).videoId)
  /\ NextItem(p)
  /\ UNCHANGED <<meta, env, storageFields, queueFields, queueItems,
                 passNow, loadVars, capVars, retryVars, delVars, recVars, history>>

(* upload-queue.ts:187-190 *)
SuccessRemove(p) ==
  /\ pc[p] = "succSaved"
  /\ queue' = Delete(queue, Item(p).videoId)
  /\ NextItem(p)
  /\ UNCHANGED <<meta, idbVideo, opfs, env, storageFields, queueFields, queueItems,
                 passNow, loadVars, capVars, retryVars, delVars, recVars, history>>

Rescheduled_BackoffBeforeIncrement(item, now) ==
  [item EXCEPT !.attempts = item.attempts + 1,
               !.lastAttempt = now,
               !.nextRetry = now + calculateBackoff(item.attempts),
               !.error = "Upload failed"]

(* upload-queue.ts:196-199  the snapshot item, rescheduled *)
Rescheduled(item, now) ==
  [item EXCEPT !.attempts = item.attempts + 1,
               !.lastAttempt = now,
               !.nextRetry = now + calculateBackoff(item.attempts + 1),
               !.error = "Upload failed"]

(* upload-queue.ts:191-200  the upload resolves false (or rejects):        *)
(* the catch block writes the rescheduled item                             *)
UploadFails(p) ==
  /\ pc[p] = "upload"
  /\ LET item == Rescheduled(Item(p), clock)
     IN  /\ queueItems' = [queueItems EXCEPT ![p][idx[p]] = item]
         /\ queue' = Put(queue, item.videoId, item)
  /\ pc' = [pc EXCEPT ![p] = "failQueued"]
  /\ UNCHANGED <<meta, idbVideo, opfs, env, storageFields, queueFields, idx, passNow,
                 metadata, videoBlob, loadVars, capVars, retryVars, delVars, recVars,
                 history>>

FailureSave_KeepsOldError(p) ==
  /\ pc[p] = "failQueued"
  /\ LET md == [metadata[p][1] EXCEPT !.status = "pending"]
     IN  meta' = Put(meta, md.id, md)
  /\ NextItem(p)
  /\ UNCHANGED <<idbVideo, opfs, queue, env, storageFields, queueFields, queueItems,
                 passNow, loadVars, capVars, retryVars, delVars, recVars, history>>

(* upload-queue.ts:203-207  status = pending, error = item.error *)
FailureSave(p) ==
  /\ pc[p] = "failQueued"
  /\ LET md == [metadata[p][1] EXCEPT !.status = "pending", !.error = Item(p).error]
     IN  meta' = Put(meta, md.id, md)
  /\ NextItem(p)
  /\ UNCHANGED <<idbVideo, opfs, queue, env, storageFields, queueFields, queueItems,
                 passNow, loadVars, capVars, retryVars, delVars, recVars, history>>

(* upload-queue.ts:146-149  the loop ends; finally: isProcessing = false.  *)
(* A pass awaited by retryVideo lets retryVideo return (line 244).         *)
PassFinish(p) ==
  /\ pc[p] = "loop" /\ idx[p] > Len(queueItems[p])
  /\ isProcessing' = FALSE
  /\ pc' = [pc EXCEPT ![p] = "idle"]
  /\ queueItems' = [queueItems EXCEPT ![p] = << >>]
  /\ idx' = [idx EXCEPT ![p] = 0]
  /\ passNow' = [passNow EXCEPT ![p] = 0]
  /\ IF p = "retry"
     THEN retryPc' = "idle" /\ retryId' = "none" /\ retryItem' = Null
          /\ retryStatus' = "none" /\ UNCHANGED failedList
     ELSE UNCHANGED retryVars
  /\ UNCHANGED <<durable, env, storageFields, queueDb, processingInterval, metadata,
                 videoBlob, loadVars, capVars, delVars, recVars, history>>

(* ------------------- a storage request of a pass fails ----------------- *)
(* The awaits of processQueue and attemptUpload that no catch block        *)
(* guards: getAllQueueItems (122), getMetadata (134, 153), saveMetadata    *)
(* (138, 163, 170, 205), removeFromQueue (140, 155, 171), updateQueueItem  *)
(* (200) and, on IndexedDB, getVideo (166; getFromOPFS catches its own     *)
(* errors).                                                                *)
Unguarded(p) ==
  \/ pc[p] \in {"getAll", "maxGot", "maxSaved", "attGot", "noBlob", "noBlobSaved",
                "upload", "failQueued"}
  \/ pc[p] = "loop" /\ idx[p] <= Len(queueItems[p])
                    /\ ~NotYetDue(Item(p), passNow[p])
  \/ pc[p] = "marked" /\ ~UseOPFS

PassRejects_KeepsLock(p) ==
  /\ faults < MaxFaults /\ Unguarded(p)
  /\ faults' = faults + 1
  /\ rejectedAt' = pc[p]
  /\ UNCHANGED <<invoked, uploaded>>
  /\ UNCHANGED isProcessing
  /\ pc' = [pc EXCEPT ![p] = "idle"]
  /\ queueItems' = [queueItems EXCEPT ![p] = << >>]
  /\ idx' = [idx EXCEPT ![p] = 0]
  /\ passNow' = [passNow EXCEPT ![p] = 0]
  /\ metadata' = [metadata EXCEPT ![p] = Null]
  /\ videoBlob' = [videoBlob EXCEPT ![p] = Null]
  /\ IF p = "retry"
     THEN retryPc' = "idle" /\ retryId' = "none" /\ retryItem' = Null
          /\ retryStatus' = "none" /\ UNCHANGED failedList
     ELSE UNCHANGED retryVars
  /\ UNCHANGED <<durable, env, storageFields, queueDb, processingInterval,
                 loadVars, capVars, delVars, recVars,
                 recorded, lastOp, deleted, crashes, retries>>

(* upload-queue.ts:147-149  the request rejects: finally resets the flag   *)
(* and processQueue rejects (and retryVideo with it, line 244)             *)
PassRejects(p) ==
  /\ faults < MaxFaults /\ Unguarded(p)
  /\ faults' = faults + 1
  /\ rejectedAt' = pc[p]
  /\ UNCHANGED <<invoked, uploaded>>
  /\ isProcessing' = FALSE
  /\ pc' = [pc EXCEPT ![p] = "idle"]
  /\ queueItems' = [queueItems EXCEPT ![p] = << >>]
  /\ idx' = [idx EXCEPT ![p] = 0]
  /\ passNow' = [passNow EXCEPT ![p] = 0]
  /\ metadata' = [metadata EXCEPT ![p] = Null]
  /\ videoBlob' = [videoBlob EXCEPT ![p] = Null]
  /\ IF p = "retry"
     THEN retryPc' = "idle" /\ retryId' = "none" /\ retryItem' = Null
          /\ retryStatus' = "none" /\ UNCHANGED failedList
     ELSE UNCHANGED retryVars
  /\ UNCHANGED <<durable, env, storageFields, queueDb, processingInterval,
                 loadVars, capVars, delVars, recVars,
                 recorded, lastOp, deleted, crashes, retries>>

(* upload-queue.ts:186-187, 194-200  saveMetadata or removeFromQueue of    *)
(* the success branch rejects inside the try block: the catch block        *)
(* reschedules the job with the request's error                            *)
SuccessBranchFails(p) ==
  /\ faults < MaxFaults /\ pc[p] \in {"succeeded", "succSaved"}
  /\ faults' = faults + 1
  /\ LET item == [Rescheduled(Item(p), clock) EXCEPT !.error = "Request failed"]
     IN  /\ queueItems' = [queueItems EXCEPT ![p][idx[p]] = item]
         /\ queue' = Put(queue, item.videoId, item)
  /\ pc' = [pc EXCEPT ![p] = "failQueued"]
  /\ UNCHANGED <<meta, idbVideo, opfs, env, storageFields, queueFields, idx, passNow,
                 metadata, videoBlob, loadVars, capVars, retryVars, delVars, recVars,
                 recorded, invoked, uploaded, lastOp, deleted, crashes, retries,
                 rejectedAt>>

(* video-storage.ts:173-179  an OPFS read fails: getFromOPFS returns null *)
ReadFailsOPFS(p) ==
  /\ faults < MaxFaults /\ pc[p] = "marked" /\ UseOPFS
  /\ faults' = faults + 1
  /\ videoBlob' = [videoBlob EXCEPT ![p] = Null]
  /\ pc' = [pc EXCEPT ![p] = "noBlob"]
  /\ UNCHANGED <<durable, env, storageFields, queueFields, queueItems, idx, passNow,
                 metadata, loadVars, capVars, retryVars, delVars, recVars,
                 recorded, invoked, uploaded, lastOp, deleted, crashes, retries,
                 rejectedAt>>

StorageFault(p) == PassRejects(p) \/ SuccessBranchFails(p) \/ ReadFailsOPFS(p)

(* upload-queue.ts:122-129, 147-149  the loop of a pass *)
LoopStep(p) == PassGetAll(p) \/ PassSkip(p) \/ PassFinish(p)

(* upload-queue.ts:132-142  the branch of a job at the ceiling *)
CeilingStep(p) == CeilingGetMetadata(p) \/ CeilingSave(p) \/ CeilingRemove(p)

(* upload-queue.ts:153-209  attemptUpload on a job whose record and payload exist *)
AttemptStep(p) ==
  \/ AttemptGetMetadata(p) \/ AttemptMarkUploading(p) \/ AttemptGetVideo(p)
  \/ UploadSucceeds(p) \/ SuccessSave(p) \/ SuccessRemove(p)
  \/ UploadFails(p) \/ FailureSave(p)

(* upload-queue.ts:154-157, 167-173  attemptUpload's early returns *)
OrphanStep(p) == AttemptNoRecord(p) \/ AttemptNoBlobSave(p) \/ AttemptNoBlobRemove(p)

PassStep(p) == LoopStep(p) \/ CeilingStep(p) \/ AttemptStep(p) \/ OrphanStep(p)


(* ------------------------- the periodic timer -------------------------- *)
(* upload-queue.ts:262-264  the interval callback *)
TimerTick ==
  /\ timers > 0
  /\ CallProcessQueue("timer")
  /\ UNCHANGED <<durable, env, storageFields, queueDb, processingInterval,
                 queueItems, idx, passNow, metadata, videoBlob,
                 loadVars, capVars, retryVars, delVars, recVars,
                 history>>

StartProcessingTimers_NoClear == timers + 1

(* upload-queue.ts:258-264  clearInterval on the stored handle, if any,    *)
(* then setInterval: the active timers afterwards                          *)
StartProcessingTimers ==
  (IF processingInterval THEN timers - 1 ELSE timers) + 1

(* upload-queue.ts:256-268  startProcessing() called directly; before      *)
(* initialize() the processQueue call it makes throws 'Queue not           *)
(* initialized' inside the try block and is logged                         *)
StartProcessing ==
  /\ timers' = StartProcessingTimers
  /\ processingInterval' = TRUE
  /\ IF queueDb THEN CallProcessQueue("start") ELSE UNCHANGED <<pc, isProcessing>>
  /\ lastOp' = [op |-> "startProcessing", id |-> "none", threw |-> FALSE,
                found |-> processingInterval]
  /\ UNCHANGED <<durable, clock, hasOPFS, hasStorage, storageFields, queueDb,
                 queueItems, idx, passNow, metadata, videoBlob,
                 loadVars, capVars, retryVars, delVars, recVars,
                 recorded, invoked, uploaded, deleted, crashes, retries,
                 faults, rejectedAt>>

(* upload-queue.ts:270-275 *)
StopProcessing ==
  /\ processingInterval
  /\ timers' = timers - 1
  /\ processingInterval' = FALSE
  /\ lastOp' = [op |-> "stopProcessing", id |-> "none", threw |-> FALSE,
                found |-> TRUE]
  /\ UNCHANGED <<durable, clock, hasOPFS, hasStorage, storageFields, queueDb,
                 isProcessing, passVars,
                 loadVars, capVars, retryVars, delVars, recVars,
                 recorded, invoked, uploaded, deleted, crashes, retries,
                 faults, rejectedAt>>

PageLoaded == storageDb /\ queueDb

(* ---------------- page load: both initialize() calls ------------------- *)
(* video-storage.ts:16  'storage' in navigator && 'getDirectory' in        *)
(* navigator.storage                                                       *)
SupportsOPFS == hasStorage /\ hasOPFS

(* part_002:30-33 and 500-503; video-storage.ts:16 *)
LoadStart ==
  /\ loadPc = "idle"
  /\ supportsOPFS' = SupportsOPFS
  /\ loadPc' = IF SupportsOPFS THEN "probe" ELSE "openDb"
  /\ UNCHANGED <<durable, env, storageDb, opfsRoot, queueFields, passVars,
                 capVars, retryVars, delVars, recVars,
                 history>>

(* video-storage.ts:21-22  getDirectory() resolves *)
LoadProbeOk ==
  /\ loadPc = "probe"
  /\ opfsRoot' = TRUE
  /\ loadPc' = "openDb"
  /\ UNCHANGED <<durable, env, storageDb, supportsOPFS, queueFields, passVars,
                 capVars, retryVars, delVars, recVars, history>>

(* video-storage.ts:23-26  getDirectory() rejects *)
LoadProbeFails ==
  /\ loadPc = "probe"
  /\ supportsOPFS' = FALSE
  /\ loadPc' = "openDb"
  /\ UNCHANGED <<durable, env, storageDb, opfsRoot, queueFields, passVars,
                 capVars, retryVars, delVars, recVars, history>>

(* video-storage.ts:30-36  initIndexedDB resolves; navigator.storage is    *)
(* there for the 'persist' test of line 33                                 *)
LoadOpenDb ==
  /\ loadPc = "openDb" /\ hasStorage
  /\ storageDb' = TRUE
  /\ loadPc' = "openQueue"
  /\ UNCHANGED <<durable, env, opfsRoot, supportsOPFS, queueFields, passVars,
                 capVars, retryVars, delVars, recVars, history>>

(* video-storage.ts:30, 33; part_002:32-39, 502-516  initIndexedDB         *)
(* resolves and this.db is set; 'persist' in navigator.storage throws a    *)
(* TypeError when navigator.storage is undefined: initialize() rejects,    *)
(* the page's catch logs it and uploadQueue.initialize() is not called     *)
LoadPersistThrows ==
  /\ loadPc = "openDb" /\ ~hasStorage
  /\ storageDb' = TRUE
  /\ loadPc' = "idle"
  /\ lastOp' = [op |-> "initialize", id |-> "none", threw |-> TRUE, found |-> FALSE]
  /\ UNCHANGED <<durable, env, opfsRoot, supportsOPFS, queueFields, passVars,
                 capVars, retryVars, delVars, recVars, recorded, invoked, uploaded,
                 deleted, crashes, retries, faults, rejectedAt>>

(* video-storage.ts:30, 42  indexedDB.open fails: initIndexedDB rejects    *)
(* and initialize() with it                                                *)
LoadOpenDbFails ==
  /\ loadPc = "openDb" /\ faults < MaxFaults
  /\ faults' = faults + 1
  /\ loadPc' = "idle"
  /\ lastOp' = [op |-> "initialize", id |-> "none", threw |-> TRUE, found |-> FALSE]
  /\ UNCHANGED <<durable, env, storageFields, queueFields, passVars,
                 capVars, retryVars, delVars, recVars, recorded, invoked, uploaded,
                 deleted, crashes, retries, rejectedAt>>

(* upload-queue.ts:14-17, 256-268  openQueueDB resolves; startProcessing  *)
(* replaces the interval and calls processQueue                            *)
LoadOpenQueue ==
  /\ loadPc = "openQueue"
  /\ queueDb' = TRUE
  /\ timers' = StartProcessingTimers
  /\ processingInterval' = TRUE
  /\ CallProcessQueue("start")
  /\ loadPc' = "idle"
  /\ UNCHANGED <<durable, clock, hasOPFS, hasStorage, storageFields, queueItems, idx,
                 passNow, metadata,
                 videoBlob, capVars, retryVars, delVars, recVars,
                 history>>

Load == LoadStart \/ LoadProbeOk \/ LoadProbeFails \/ LoadOpenDb \/ LoadOpenQueue

(* ------------------ record page: mediaRecorder.onstop ------------------ *)
FinalBlob == <<1>>     \* the payload of a recording whose chunks are not followed

(* video-storage.ts:90-97  the file holds the blob once close() commits *)
SaveToOPFS(files, videoId, blob) == Put(files, videoId, blob)

(* video-storage.ts:119-128 *)
SaveToIndexedDB(store, videoId, blob) == Put(store, videoId, blob)

(* part_002:152-170, video-storage.ts:64-68  onstop with a non-empty       *)
(* chunksRef: the record is built and saveVideo saves it                   *)
OnStop(v, blob) ==
  /\ capPc = "idle" /\ PageLoaded
  /\ meta' = Put(meta, v, InitialMetadata(v))
  /\ capPc' = "metaSaved" /\ capId' = v /\ capBlob' = blob
  /\ UNCHANGED <<idbVideo, opfs, queue, env, storageFields, queueFields, passVars,
                 loadVars, retryVars, delVars,
                 invoked, uploaded, lastOp, deleted, crashes, retries,
                 faults, rejectedAt>>

(* a recording ends; its chunk callbacks are not followed *)
CaptureSaveMetadata(v) ==
  /\ recId = "none" /\ v \notin recorded
  /\ recorded' = recorded \cup {v}
  /\ OnStop(v, FinalBlob)
  /\ UNCHANGED recVars

(* video-storage.ts:71-72, 93  getFileHandle(create: true) *)
CaptureOpenFile ==
  /\ capPc = "metaSaved" /\ UseOPFS
  /\ opfs' = IF capId \in DOMAIN opfs THEN opfs ELSE Put(opfs, capId, << >>)
  /\ capPc' = "fileOpen"
  /\ UNCHANGED <<meta, idbVideo, queue, env, storageFields, queueFields, passVars,
                 loadVars, capId, capBlob, retryVars, delVars, recVars, history>>

(* video-storage.ts:94-96  the writable stream is committed by close() *)
CaptureCloseFile ==
  /\ capPc = "fileOpen"
  /\ opfs' = SaveToOPFS(opfs, capId, capBlob)
  /\ capPc' = "blobSaved"
  /\ UNCHANGED <<meta, idbVideo, queue, env, storageFields, queueFields, passVars,
                 loadVars, capId, capBlob, retryVars, delVars, recVars, history>>

(* video-storage.ts:73-74 *)
CaptureSaveToIndexedDB ==
  /\ capPc = "metaSaved" /\ ~UseOPFS
  /\ idbVideo' = SaveToIndexedDB(idbVideo, capId, capBlob)
  /\ capPc' = "blobSaved"
  /\ UNCHANGED <<meta, opfs, queue, env, storageFields, queueFields, passVars,
                 loadVars, capId, capBlob, retryVars, delVars, recVars, history>>

CaptureAddToQueue_KeepsExisting ==
  /\ capPc = "blobSaved"
  /\ queue' = IF capId \in DOMAIN queue THEN queue
              ELSE Put(queue, capId, NewQueueItem(capId))
  /\ capPc' = "idle" /\ capId' = "none" /\ capBlob' = << >>
  /\ UNCHANGED <<meta, idbVideo, opfs, env, storageFields, queueFields, passVars,
                 loadVars, retryVars, delVars, recVars, history>>

(* part_002:173, upload-queue.ts:36-57 *)
CaptureAddToQueue ==
  /\ capPc = "blobSaved"
  /\ queue' = Put(queue, capId, NewQueueItem(capId))
  /\ capPc' = "idle" /\ capId' = "none" /\ capBlob' = << >>
  /\ UNCHANGED <<meta, idbVideo, opfs, env, storageFields, queueFields, passVars,
                 loadVars, retryVars, delVars, recVars, history>>

(* part_002:181-188  a request of saveVideo after the metadata write, or  *)
(* addToQueue, rejects: onstop logs the error and ends                     *)
CaptureFails ==
  /\ faults < MaxFaults /\ capPc \in {"metaSaved", "fileOpen", "blobSaved"}
  /\ faults' = faults + 1
  /\ capPc' = "idle" /\ capId' = "none" /\ capBlob' = << >>
  /\ UNCHANGED <<durable, env, storageFields, queueFields, passVars, loadVars,
                 retryVars, delVars, recVars,
                 recorded, invoked, uploaded, lastOp, deleted, crashes, retries,
                 rejectedAt>>

SaveVideo ==
  CaptureOpenFile \/ CaptureCloseFile \/ CaptureSaveToIndexedDB \/ CaptureAddToQueue

Capture(ids) == (\E v \in ids : CaptureSaveMetadata(v)) \/ SaveVideo

(* ------------- record page: mediaRecorder.ondataavailable -------------- *)
Chunks == {<<b>> : b \in Bytes}

RECURSIVE Blob(_)
(* new Blob(parts): the parts one after the other *)
Blob(parts) == IF parts = << >> THEN << >> ELSE Head(parts) \o Blob(Tail(parts))

(* part_002:111-127  startRecording: a fresh id, chunksRef = [], chunkIndex = 0 *)
StartRecording(v) ==
  /\ recId = "none" /\ capPc = "idle" /\ PageLoaded /\ v \notin recorded
  /\ recorded' = recorded \cup {v}
  /\ recId' = v /\ chunksRef' = << >> /\ chunkIndex' = 0
  /\ UNCHANGED <<durable, env, storageFields, queueFields, passVars, loadVars,
                 capVars, retryVars, delVars, chunkPc, chunkFile, chunkCall,
                 invoked, uploaded, lastOp, deleted, crashes, retries,
                 faults, rejectedAt>>

IsFirstChunk == chunkIndex = 0

(* part_002:139-143  the arguments of one saveVideoChunk call *)
ChunkCall(videoId, chunk, isFirstChunk) ==
  Some([videoId |-> videoId, chunk |-> chunk, isFirstChunk |-> isFirstChunk])

(* part_002:130-141, video-storage.ts:78-82, 102  a chunk is delivered;    *)
(* OPFS: getFileHandle(create: true)                                       *)
ChunkOpenFile(chunk) ==
  /\ recId # "none" /\ chunkPc = "idle" /\ Len(chunksRef) < MaxChunks
  /\ UseOPFS
  /\ chunksRef' = Append(chunksRef, chunk)
  /\ chunkCall' = ChunkCall(recId, chunk, IsFirstChunk)
  /\ opfs' = IF recId \in DOMAIN opfs THEN opfs ELSE Put(opfs, recId, << >>)
  /\ chunkPc' = IF IsFirstChunk THEN "write" ELSE "opened"
  /\ UNCHANGED <<meta, idbVideo, queue, env, storageFields, queueFields, passVars,
                 loadVars, capVars, retryVars, delVars, recId, chunkIndex, chunkFile,
                 history>>

(* video-storage.ts:111-113  getFile(): the content to copy; NotFoundError *)
(* when the entry has been removed (part_002:145-147 logs it)              *)
ChunkReadFile ==
  /\ chunkPc = "opened"
  /\ IF chunkCall[1].videoId \in DOMAIN opfs
     THEN /\ chunkFile' = opfs[chunkCall[1].videoId]
          /\ chunkPc' = "write"
          /\ UNCHANGED chunkCall
     ELSE /\ chunkPc' = "idle" /\ chunkFile' = << >> /\ chunkCall' = Null
  /\ UNCHANGED <<durable, env, storageFields, queueFields, passVars, loadVars,
                 capVars, retryVars, delVars, recId, chunksRef, chunkIndex, history>>

(* video-storage.ts:104-116  what close() commits *)
AppendToOPFS_DropsExisting(existing, chunk, isFirstChunk) == chunk

AppendToOPFS(existing, chunk, isFirstChunk) ==
  IF isFirstChunk THEN chunk ELSE existing \o chunk

(* video-storage.ts:108, 115; part_002:143  close(); chunkIndex++ on the   *)
(* counter of the recording the call belongs to                            *)
ChunkCloseFile ==
  /\ chunkPc = "write"
  /\ LET call == chunkCall[1]
     IN  /\ opfs' = Put(opfs, call.videoId,
                        AppendToOPFS(chunkFile, call.chunk, call.isFirstChunk))
         /\ chunkIndex' = IF recId = call.videoId THEN chunkIndex + 1 ELSE chunkIndex
  /\ chunkPc' = "idle" /\ chunkFile' = << >> /\ chunkCall' = Null
  /\ UNCHANGED <<meta, idbVideo, queue, env, storageFields, queueFields, passVars,
                 loadVars, capVars, retryVars, delVars, recId, chunksRef, history>>

AppendToIndexedDB_AlwaysAppends(store, videoId, chunk, isFirstChunk) ==
  IF videoId \notin DOMAIN store
  THEN Put(store, videoId, chunk)
  ELSE Put(store, videoId, store[videoId] \o chunk)

(* video-storage.ts:130-158  one readwrite transaction *)
AppendToIndexedDB(store, videoId, chunk, isFirstChunk) ==
  IF isFirstChunk \/ videoId \notin DOMAIN store
  THEN Put(store, videoId, chunk)
  ELSE Put(store, videoId, store[videoId] \o chunk)

(* part_002:130-143, video-storage.ts:83-86  the transaction is created    *)
(* when the chunk is delivered and runs before every later one             *)
ChunkAppendIndexedDB(chunk) ==
  /\ recId # "none" /\ chunkPc = "idle" /\ Len(chunksRef) < MaxChunks
  /\ ~UseOPFS
  /\ chunksRef' = Append(chunksRef, chunk)
  /\ idbVideo' = AppendToIndexedDB(idbVideo, recId, chunk, IsFirstChunk)
  /\ chunkIndex' = chunkIndex + 1
  /\ UNCHANGED <<meta, opfs, queue, env, storageFields, queueFields, passVars,
                 loadVars, capVars, retryVars, delVars, recId, chunkPc, chunkFile,
                 chunkCall, history>>

(* part_002:132-142, video-storage.ts:83-86, 130-141  a chunk is delivered *)
(* while earlier handlers may still await their saveVideoChunk call: the   *)
(* handler pushes the chunk, reads chunkIndex and creates its transaction  *)
ChunkDeliverIndexedDB(chunk) ==
  /\ recId # "none" /\ Len(chunksRef) < MaxChunks
  /\ ~UseOPFS
  /\ chunksRef' = Append(chunksRef, chunk)
  /\ idbVideo' = AppendToIndexedDB(idbVideo, recId, chunk, IsFirstChunk)
  /\ UNCHANGED <<meta, opfs, queue, env, storageFields, queueFields, passVars,
                 loadVars, capVars, retryVars, delVars, recId, chunkIndex, chunkPc,
                 chunkFile, chunkCall, history>>

(* part_002:138-143  the await of a handler resumes: chunkIndex++.  Every  *)
(* pushed chunk has one handler, so the handlers still waiting are those   *)
(* of the chunks beyond chunkIndex                                         *)
ChunkResumeIndexedDB ==
  /\ recId # "none" /\ ~UseOPFS
  /\ chunkIndex < Len(chunksRef)
  /\ chunkIndex' = chunkIndex + 1
  /\ UNCHANGED <<durable, env, storageFields, queueFields, passVars, loadVars,
                 capVars, retryVars, delVars, recId, chunksRef, chunkPc, chunkFile,
                 chunkCall, history>>

(* video-storage.ts:78-82, 99-102  saveVideoChunk called with any          *)
(* arguments, OPFS: getFileHandle(create: true)                            *)
SaveVideoChunkOPFS(videoId, chunk, isFirstChunk) ==
  /\ storageDb /\ UseOPFS /\ chunkPc = "idle"
  /\ IF isFirstChunk \/ videoId \notin DOMAIN opfs
     THEN TRUE ELSE Len(opfs[videoId]) < MaxChunks
  /\ chunkCall' = ChunkCall(videoId, chunk, isFirstChunk)
  /\ opfs' = IF videoId \in DOMAIN opfs THEN opfs ELSE Put(opfs, videoId, << >>)
  /\ chunkPc' = IF isFirstChunk THEN "write" ELSE "opened"
  /\ UNCHANGED <<meta, idbVideo, queue, env, storageFields, queueFields, passVars,
                 loadVars, capVars, retryVars, delVars, recId, chunksRef, chunkIndex,
                 chunkFile, history>>

(* video-storage.ts:78-88, 130-158  saveVideoChunk called with any         *)
(* arguments, IndexedDB: the transaction has run, the promise is resolved  *)
SaveVideoChunkIndexedDB(videoId, chunk, isFirstChunk) ==
  /\ storageDb /\ ~UseOPFS /\ chunkPc = "idle"
  /\ IF isFirstChunk \/ videoId \notin DOMAIN idbVideo
     THEN TRUE ELSE Len(idbVideo[videoId]) < MaxChunks
  /\ chunkCall' = ChunkCall(videoId, chunk, isFirstChunk)
  /\ idbVideo' = AppendToIndexedDB(idbVideo, videoId, chunk, isFirstChunk)
  /\ chunkPc' = "stored"
  /\ UNCHANGED <<meta, opfs, queue, env, storageFields, queueFields, passVars,
                 loadVars, capVars, retryVars, delVars, recId, chunksRef, chunkIndex,
                 chunkFile, history>>

(* video-storage.ts:86-88  the awaiting caller resumes *)
SaveVideoChunkReturns ==
  /\ chunkPc = "stored"
  /\ chunkPc' = "idle" /\ chunkCall' = Null
  /\ UNCHANGED <<durable, env, storageFields, queueFields, passVars, loadVars,
                 capVars, retryVars, delVars, recId, chunksRef, chunkIndex, chunkFile,
                 history>>

(* part_002:152-170, 187-188  the recorder stops after its last chunk is   *)
(* saved                                                                   *)
StopRecording ==
  /\ recId # "none" /\ chunkPc = "idle" /\ Len(chunksRef) > 0
  /\ OnStop(recId, Blob(chunksRef))
  /\ recId' = "none" /\ chunksRef' = << >> /\ chunkIndex' = 0
  /\ UNCHANGED <<chunkPc, chunkFile, chunkCall, recorded>>

(* part_002:130-170  the recorder stops while the save of the chunk it     *)
(* delivered last is still running: onstop starts beside that call         *)
StopDuringSave ==
  /\ recId # "none" /\ chunkPc # "idle" /\ Len(chunksRef) > 0
  /\ OnStop(recId, Blob(chunksRef))
  /\ recId' = "none" /\ chunksRef' = << >> /\ chunkIndex' = 0
  /\ UNCHANGED <<chunkPc, chunkFile, chunkCall, recorded>>

Recording ==
  \/ \E v \in Videos : StartRecording(v)
  \/ \E c \in Chunks : ChunkOpenFile(c) \/ ChunkAppendIndexedDB(c)
  \/ ChunkReadFile \/ ChunkCloseFile
  \/ StopRecording
  \/ SaveVideo

(* --------------------------- retryVideo -------------------------------- *)
(* upload-queue.ts:230-231 *)
RetryStart(v) ==
  /\ retryPc = "idle" /\ PageLoaded /\ retries < MaxRetries
  /\ failedList = Null
  /\ retries' = retries + 1
  /\ UNCHANGED failedList
  /\ retryId' = v
  /\ retryItem' = GetQueueItem(v)
  /\ retryStatus' = IF v \in DOMAIN meta THEN meta[v].status ELSE "none"
  /\ retryPc' = "got"
  /\ UNCHANGED <<durable, env, storageFields, queueFields, passVars, loadVars,
                 capVars, delVars, recVars,
                 recorded, invoked, uploaded, lastOp, deleted, crashes,
                 faults, rejectedAt>>

ResetItem_KeepsAttempts(item, now) == [item EXCEPT !.nextRetry = now]

(* upload-queue.ts:235-236  attempts = 0, nextRetry = new Date() *)
ResetItem(item, now) == [item EXCEPT !.attempts = 0, !.nextRetry = now]

RetryPut_ClearsError ==
  /\ retryPc = "got"
  /\ queue' = IF retryItem # Null
              THEN Put(queue, retryId, ResetItem(retryItem[1], clock))
              ELSE Put(queue, retryId, NewQueueItem(retryId))
  /\ meta' = IF retryId \in DOMAIN meta
             THEN Put(meta, retryId, [meta[retryId] EXCEPT !.status = "pending",
                                                           !.error = Undefined])
             ELSE meta
  /\ retryPc' = "put"
  /\ UNCHANGED <<idbVideo, opfs, env, storageFields, queueFields, passVars,
                 loadVars, capVars, retryId, retryItem, retryStatus, failedList, delVars, recVars,
                 history>>

(* upload-queue.ts:233-241 *)
RetryPut ==
  /\ retryPc = "got"
  /\ queue' = IF retryItem # Null
              THEN Put(queue, retryId, ResetItem(retryItem[1], clock))
              ELSE Put(queue, retryId, NewQueueItem(retryId))
  /\ retryPc' = "put"
  /\ UNCHANGED <<meta, idbVideo, opfs, env, storageFields, queueFields, passVars,
                 loadVars, capVars, retryId, retryItem, retryStatus, failedList, delVars, recVars,
                 history>>

(* upload-queue.ts:244  await this.processQueue() *)
RetryProcess ==
  /\ retryPc = "put"
  /\ CallProcessQueue("retry")
  /\ IF AlreadyProcessing
     THEN retryPc' = "idle" /\ retryId' = "none" /\ retryItem' = Null
          /\ retryStatus' = "none" /\ UNCHANGED failedList
     ELSE retryPc' = "pass" /\ UNCHANGED <<retryId, retryItem, retryStatus, failedList>>
  /\ UNCHANGED <<durable, env, storageFields, queueDb, processingInterval,
                 queueItems, idx, passNow, metadata, videoBlob,
                 loadVars, capVars, delVars, recVars,
                 history>>

Retry(ids) == (\E v \in ids : RetryStart(v)) \/ RetryPut \/ RetryProcess

(* upload-queue.ts:248-249  getAllMetadata() in key order, filtered *)
FailedOrPending ==
  SelectSeq(VideoOrder,
            LAMBDA v : v \in DOMAIN meta /\ meta[v].status \in {"failed", "pending"})

(* part_002:586-588, upload-queue.ts:247-249  'Retry all' is clicked *)
RetryAllGetAll ==
  /\ retryPc = "idle" /\ PageLoaded /\ retries < MaxRetries
  /\ failedList = Null
  /\ retries' = retries + 1
  /\ failedList' = Some(FailedOrPending)
  /\ UNCHANGED <<durable, env, storageFields, queueFields, passVars, loadVars,
                 capVars, retryPc, retryId, retryItem, retryStatus, delVars, recVars,
                 recorded, invoked, uploaded, lastOp, deleted, crashes,
                 faults, rejectedAt>>

(* upload-queue.ts:251-252, 231  the loop calls retryVideo for the next    *)
(* record of the snapshot, once the previous call has returned             *)
RetryAllNext ==
  /\ failedList # Null /\ failedList[1] # << >> /\ retryPc = "idle"
  /\ LET v == Head(failedList[1])
     IN  /\ retryId' = v
         /\ retryItem' = GetQueueItem(v)
         /\ retryStatus' = IF v \in DOMAIN meta THEN meta[v].status ELSE "none"
  /\ failedList' = Some(Tail(failedList[1]))
  /\ retryPc' = "got"
  /\ UNCHANGED <<durable, env, storageFields, queueFields, passVars, loadVars,
                 capVars, delVars, recVars, history>>

(* upload-queue.ts:251-254  the loop is over *)
RetryAllReturns ==
  /\ failedList = Some(<< >>) /\ retryPc = "idle"
  /\ failedList' = Null
  /\ UNCHANGED <<durable, env, storageFields, queueFields, passVars, loadVars,
                 capVars, retryPc, retryId, retryItem, retryStatus, delVars, recVars,
                 history>>

RetryAllFailed ==
  RetryAllGetAll \/ RetryAllNext \/ RetryAllReturns \/ RetryPut \/ RetryProcess

(* ----------------------------- deleteVideo ----------------------------- *)
(* FileSystemDirectoryHandle.removeEntry: NotFoundError on a missing entry *)
RemoveEntry(files, name) ==
  IF name \in DOMAIN files
  THEN [threw |-> FALSE, files |-> Delete(files, name)]
  ELSE [threw |-> TRUE, files |-> files]

DeleteFromOPFS_NoCatch(files, videoId) == RemoveEntry(files, videoId)

(* video-storage.ts:210-218  the error is caught and logged *)
DeleteFromOPFS(files, videoId) ==
  [threw |-> FALSE, files |-> RemoveEntry(files, videoId).files]

(* video-storage.ts:220-229  IDBObjectStore.delete succeeds on any key *)
DeleteFromIndexedDB(store, videoId) ==
  [threw |-> FALSE, store |-> Delete(store, videoId)]

RemoveFromQueue_ThrowsIfAbsent(store, videoId) ==
  [threw |-> videoId \notin DOMAIN store, store |-> Delete(store, videoId)]

(* upload-queue.ts:59-70 *)
RemoveFromQueue(store, videoId) ==
  [threw |-> FALSE, store |-> Delete(store, videoId)]

(* part_002:565-569, video-storage.ts:196-204  payload removal *)
DeleteStart(v) ==
  /\ delPc = "idle" /\ PageLoaded
  /\ delId' = v
  /\ delAgain' = (v \in deleted)
  /\ LET r == IF UseOPFS THEN DeleteFromOPFS(opfs, v)
                         ELSE [threw |-> FALSE, files |-> opfs]
         q == IF UseOPFS THEN [threw |-> FALSE, store |-> idbVideo]
                         ELSE DeleteFromIndexedDB(idbVideo, v)
     IN  /\ opfs' = r.files
         /\ idbVideo' = q.store
         /\ IF r.threw \/ q.threw
            THEN /\ delPc' = "idle"
                 /\ lastOp' = [op |-> "deleteVideo", id |-> v, threw |-> TRUE,
                               found |-> v \in DOMAIN meta]
            ELSE /\ delPc' = "payloadDeleted"
                 /\ UNCHANGED lastOp
  /\ UNCHANGED <<meta, queue, env, storageFields, queueFields, passVars, loadVars,
                 capVars, retryVars, recVars,
                 recorded, invoked, uploaded, deleted, crashes, retries,
                 faults, rejectedAt>>

(* video-storage.ts:206-207, 264-273  deleteMetadata; deleteVideo returns *)
DeleteMetadata ==
  /\ delPc = "payloadDeleted"
  /\ meta' = Delete(meta, delId)
  /\ lastOp' = [op |-> "deleteVideo", id |-> delId, threw |-> FALSE,
                found |-> delId \in DOMAIN meta]
  /\ deleted' = deleted \cup {delId}
  /\ delPc' = "metaDeleted"
  /\ UNCHANGED <<idbVideo, opfs, queue, env, storageFields, queueFields, passVars,
                 loadVars, capVars, retryVars, delId, delAgain, recVars,
                 recorded, invoked, uploaded, crashes, retries,
                 faults, rejectedAt>>

(* part_002:570 *)
DeleteRemoveFromQueue ==
  /\ delPc = "metaDeleted"
  /\ LET r == RemoveFromQueue(queue, delId)
     IN  /\ queue' = r.store
         /\ lastOp' = [op |-> "removeFromQueue", id |-> delId, threw |-> r.threw,
                       found |-> delId \in DOMAIN queue]
  /\ delPc' = "idle" /\ delId' = "none" /\ delAgain' = FALSE
  /\ UNCHANGED <<meta, idbVideo, opfs, env, storageFields, queueFields, passVars,
                 loadVars, capVars, retryVars, recVars,
                 recorded, invoked, uploaded, deleted, crashes, retries,
                 faults, rejectedAt>>

(* the ids the gallery can list: recordings that are over and saved or lost *)
Listed == recorded \ {recId, capId}

(* video-storage.ts:196-204, 210-218  removeEntry rejects and leaves the   *)
(* entry (the file is locked, the disk fails): deleteFromOPFS logs the     *)
(* error and returns, deleteVideo goes on                                  *)
DeleteStartKeepsFile(v) ==
  /\ faults < MaxFaults
  /\ delPc = "idle" /\ PageLoaded /\ UseOPFS /\ v \in DOMAIN opfs
  /\ faults' = faults + 1
  /\ delId' = v
  /\ delAgain' = (v \in deleted)
  /\ delPc' = "payloadDeleted"
  /\ UNCHANGED <<durable, env, storageFields, queueFields, passVars, loadVars,
                 capVars, retryVars, recVars,
                 recorded, invoked, uploaded, lastOp, deleted, crashes, retries,
                 rejectedAt>>

DeleteHandler(ids) ==
  (\E v \in ids \cap Listed : DeleteStart(v)) \/ DeleteMetadata \/ DeleteRemoveFromQueue

(* ------------------------------- time ---------------------------------- *)
(* one clock step *)
AdvanceClock ==
  /\ clock + BASE_DELAY <= FineTime
  /\ clock' = clock + BASE_DELAY
  /\ UNCHANGED <<durable, hasOPFS, hasStorage, timers, storageFields, queueFields, passVars, loadVars,
                 capVars, retryVars, delVars, recVars, history>>

(* --------------------- the process is killed --------------------------- *)
Crash ==
  /\ crashes < MaxCrashes
  /\ crashes' = crashes + 1
  /\ storageDb' = FALSE /\ opfsRoot' = FALSE /\ supportsOPFS' = FALSE
  /\ queueDb' = FALSE /\ isProcessing' = FALSE /\ processingInterval' = FALSE
  /\ timers' = 0
  /\ pc' = NoTask
  /\ queueItems' = [p \in Invokers |-> << >>]
  /\ idx' = [p \in Invokers |-> 0]
  /\ passNow' = [p \in Invokers |-> 0]
  /\ metadata' = [p \in Invokers |-> Null]
  /\ videoBlob' = [p \in Invokers |-> Null]
  /\ loadPc' = "idle"
  /\ capPc' = "idle" /\ capId' = "none" /\ capBlob' = << >>
  /\ retryPc' = "idle" /\ retryId' = "none" /\ retryItem' = Null /\ retryStatus' = "none"
  /\ failedList' = Null
  /\ delPc' = "idle" /\ delId' = "none" /\ delAgain' = FALSE
  /\ recId' = "none" /\ chunksRef' = << >> /\ chunkIndex' = 0
  /\ chunkPc' = "idle" /\ chunkFile' = << >> /\ chunkCall' = Null
  /\ UNCHANGED <<durable, clock, hasOPFS, hasStorage, recorded, invoked, uploaded,
                 lastOp, deleted, retries,
                 faults, rejectedAt>>

(* nothing happens until a queued retry falls due *)
AwaitRetry ==
  /\ \E v \in DOMAIN queue :
       /\ queue[v].nextRetry > clock /\ queue[v].nextRetry <= MaxTime
       /\ clock' = queue[v].nextRetry
  /\ UNCHANGED <<durable, hasOPFS, hasStorage, timers, storageFields, queueFields, passVars, loadVars,
                 capVars, retryVars, delVars, recVars, history>>

(* --------------------------- specifications ---------------------------- *)
Pass == \E p \in Invokers : PassStep(p)

LoadOk == LoadStart \/ LoadProbeOk \/ LoadOpenDb \/ LoadOpenQueue

Queue == TimerTick \/ Pass

(* Without retryVideo and deleteVideo every job has its record and its     *)
(* payload (JobsIntact), and attemptUpload's early returns have no state   *)
(* to run in.                                                              *)
PassIntact == \E p \in Invokers : LoopStep(p) \/ CeilingStep(p) \/ AttemptStep(p)

JobsIntact ==
  /\ \A v \in DOMAIN queue : v \in DOMAIN meta /\ (PageLoaded => GetVideo(v) # Null)
  /\ \A p \in Invokers : ~ENABLED OrphanStep(p)

(* While the clock stands still no job reaches the ceiling (AtRest).       *)
PassAtRest == \E p \in Invokers : LoopStep(p) \/ AttemptStep(p) \/ OrphanStep(p)

AtRest ==
  /\ \A v \in DOMAIN queue : queue[v].attempts < MAX_RETRY_ATTEMPTS
  /\ \A p \in Invokers : ~ENABLED CeilingStep(p)

(* one recording, automatic processing, retries awaited up to the ceiling *)
NextAuto ==
  LoadOk \/ Capture({"v1"}) \/ TimerTick \/ PassIntact \/ AdvanceClock \/ AwaitRetry
SpecAuto == Init /\ [][NextAuto]_vars

(* the interval keeps firing, every request and upload call returns, and   *)
(* time reaches the next retry                                             *)
FairAuto ==
  SpecAuto /\ SF_vars(TimerTick) /\ WF_vars(PassIntact) /\ WF_vars(AwaitRetry)

(* ... and a request of the capture may fail; every request returns *)
NextCapture == NextAuto \/ CaptureFails
SpecCapture == Init /\ [][NextCapture]_vars

FairCapture ==
  /\ SpecCapture
  /\ SF_vars(TimerTick) /\ WF_vars(PassIntact) /\ WF_vars(AwaitRetry)
  /\ WF_vars(SaveVideo)

(* ... and the process may be killed and reopened *)
NextCrash == NextAuto \/ Crash
SpecCrash == Init /\ [][NextCrash]_vars

(* ... killed while no capture is being saved, and reopened *)
CrashInPass == capPc = "idle" /\ Crash

NextCrashInPass == NextAuto \/ CrashInPass
SpecCrashInPass == Init /\ [][NextCrashInPass]_vars

FairCrashInPass ==
  /\ SpecCrashInPass
  /\ SF_vars(TimerTick) /\ WF_vars(PassIntact) /\ WF_vars(AwaitRetry)
  /\ WF_vars(SaveVideo) /\ WF_vars(LoadOk)

(* The page is loaded once, one recording is captured, the clock is        *)
(* followed from one retry time to the next, and the user may retry the    *)
(* recording by hand.                                                      *)
FirstLoad == (~PageLoaded /\ LoadStart) \/ LoadProbeOk \/ LoadOpenDb \/ LoadOpenQueue

NextRetry == FirstLoad \/ Capture({"v1"}) \/ Queue \/ AwaitRetry \/ Retry({"v1"})
SpecRetry == Init /\ [][NextRetry]_vars

(* the gallery deletes the recording while the queue works on it *)
NextDeleteRace ==
  FirstLoad \/ Capture({"v1"}) \/ TimerTick \/ PassAtRest \/ DeleteHandler({"v1"})
SpecDeleteRace == Init /\ [][NextDeleteRace]_vars

(* ... and a removeEntry of the deletion may fail *)
NextDeleteFault ==
  NextDeleteRace \/ (\E v \in {"v1"} \cap Listed : DeleteStartKeepsFile(v))
SpecDeleteFault == Init /\ [][NextDeleteFault]_vars

(* the gallery deletes the recording at any time of its retry schedule *)
NextOrphan ==
  FirstLoad \/ Capture({"v1"}) \/ Queue \/ AwaitRetry \/ DeleteHandler({"v1"})
SpecOrphan == Init /\ [][NextOrphan]_vars

(* recordings are made chunk by chunk; the process may be killed and the   *)
(* page reopened                                                           *)
NextRecordCrash == FirstLoad \/ Recording \/ Crash
SpecRecordCrash == Init /\ [][NextRecordCrash]_vars

(* Every page load initializes again, and the OPFS probe may fail. A job   *)
(* always has its record here, its payload may be in the other backend.    *)
PassOtherBackend ==
  \E p \in Invokers :
    LoopStep(p) \/ AttemptStep(p) \/ AttemptNoBlobSave(p) \/ AttemptNoBlobRemove(p)

NextBackend == Load \/ Capture({"v1"}) \/ TimerTick \/ PassOtherBackend
SpecBackend == Init /\ [][NextBackend]_vars

(* recordings whose recorder may stop while its last chunk is being saved *)
NextFinalize == FirstLoad \/ Recording \/ StopDuringSave
SpecFinalize == Init /\ [][NextFinalize]_vars

(* Two recordings and automatic processing while the clock stands still.   *)
(* Every request returns; the upload call for v1 may never return.         *)
PassUploads == \E p \in Invokers : LoopStep(p) \/ AttemptStep(p)

PassExceptUploadOfV1 ==
  \E p \in Invokers :
    /\ ~(pc[p] = "upload" /\ Item(p).videoId = "v1")
    /\ (LoopStep(p) \/ AttemptStep(p))

NextHang == FirstLoad \/ Capture(Videos) \/ TimerTick \/ PassUploads
SpecHang == Init /\ [][NextHang]_vars

FairHang ==
  /\ SpecHang
  /\ SF_vars(TimerTick) /\ WF_vars(PassExceptUploadOfV1) /\ WF_vars(SaveVideo)

(* Every caller of processQueue at one instant: the interval, the          *)
(* startProcessing of each (re)initialisation, and retryVideo.             *)
NextReentry == LoadOk \/ Capture({"v1"}) \/ TimerTick \/ PassAtRest \/ Retry({"v1"})
SpecReentry == Init /\ [][NextReentry]_vars

(* Storage requests of a pass may fail; the clock stands still and every   *)
(* job has its record.                                                     *)
PassFaulty ==
  \E p \in Invokers :
    \/ LoopStep(p) \/ AttemptStep(p)
    \/ AttemptNoBlobSave(p) \/ AttemptNoBlobRemove(p)
    \/ StorageFault(p)

NextFault == FirstLoad \/ Capture({"v1"}) \/ TimerTick \/ PassFaulty
SpecFault == Init /\ [][NextFault]_vars

(* one recording and every handler *)
Next ==
  \/ LoadOk \/ Capture({"v1"}) \/ Queue \/ AdvanceClock
  \/ Retry({"v1"}) \/ DeleteHandler({"v1"}) \/ Crash
Spec == Init /\ [][Next]_vars

(* The store alone, on a loaded page: recordings deliver and save their    *)
(* chunks one after the other and stop; the user deletes listed ids.  The  *)
(* payload backend is the one the page load selected.                      *)
InitStore ==
  /\ meta = Empty /\ idbVideo = Empty /\ opfs = Empty /\ queue = Empty
  /\ clock = 0
  /\ hasOPFS \in BOOLEAN /\ hasStorage = TRUE
  /\ storageDb = TRUE /\ queueDb = TRUE
  /\ \E probed \in BOOLEAN :
       /\ opfsRoot = (hasOPFS /\ probed)
       /\ supportsOPFS = (hasOPFS /\ probed)
  /\ isProcessing = FALSE /\ processingInterval = TRUE /\ timers = 1
  /\ pc = NoTask
  /\ queueItems = [p \in Invokers |-> << >>]
  /\ idx = [p \in Invokers |-> 0]
  /\ passNow = [p \in Invokers |-> 0]
  /\ metadata = [p \in Invokers |-> Null]
  /\ videoBlob = [p \in Invokers |-> Null]
  /\ loadPc = "idle"
  /\ capPc = "idle" /\ capId = "none" /\ capBlob = << >>
  /\ retryPc = "idle" /\ retryId = "none" /\ retryItem = Null /\ retryStatus = "none"
  /\ failedList = Null
  /\ delPc = "idle" /\ delId = "none" /\ delAgain = FALSE
  /\ recId = "none" /\ chunksRef = << >> /\ chunkIndex = 0
  /\ chunkPc = "idle" /\ chunkFile = << >> /\ chunkCall = Null
  /\ recorded = {}
  /\ invoked = [v \in Videos |-> 0]
  /\ uploaded = [v \in Videos |-> 0]
  /\ lastOp = [op |-> "none", id |-> "none", threw |-> FALSE, found |-> FALSE]
  /\ deleted = {}
  /\ crashes = 0 /\ retries = 0
  /\ faults = 0 /\ rejectedAt = "none"

NextStore == Recording \/ DeleteHandler(Videos)
SpecStore == InitStore /\ [][NextStore]_vars

(* saveVideoChunk alone, called with any id, chunk and isFirstChunk, one   *)
(* call at a time                                                          *)
NextChunkCalls ==
  \/ \E v \in Videos, c \in Chunks, first \in BOOLEAN :
       SaveVideoChunkOPFS(v, c, first) \/ SaveVideoChunkIndexedDB(v, c, first)
  \/ ChunkReadFile \/ ChunkCloseFile \/ SaveVideoChunkReturns
SpecChunkCalls == InitStore /\ [][NextChunkCalls]_vars

(* The interval timer: page loads repeat (the gallery calls initialize()  *)
(* on every refresh), startProcessing() and stopProcessing() are called    *)
(* at any time, a capture gives the passes a job                           *)
NextTimer ==
  \/ Load \/ StartProcessing \/ StopProcessing
  \/ Capture({"v1"}) \/ TimerTick \/ PassOtherBackend
SpecTimer == Init /\ [][NextTimer]_vars

(* A recording on the IndexedDB backend whose ondataavailable handlers     *)
(* overlap: a chunk may be delivered before the handler of the previous   *)
(* one has resumed from its save                                          *)
InitIndexedDBStore == InitStore /\ ~UseOPFS

NextOverlap ==
  \/ \E v \in Videos : StartRecording(v)
  \/ \E c \in Chunks : ChunkDeliverIndexedDB(c)
  \/ ChunkResumeIndexedDB
  \/ StopRecording \/ CaptureSaveToIndexedDB \/ CaptureAddToQueue
SpecOverlap == InitIndexedDBStore /\ [][NextOverlap]_vars

(* 'Retry all' on a page with two captures: no time passes, so no job     *)
(* reaches the ceiling, and nothing is deleted                            *)
NextRetryAll == FirstLoad \/ Capture(Videos) \/ TimerTick \/ PassUploads \/ RetryAllFailed
SpecRetryAll == Init /\ [][NextRetryAll]_vars

(* initialize() in any browser: navigator.storage may be missing (an      *)
(* insecure context, or a browser without the Storage API), and with it   *)
(* getDirectory; page loads repeat (the gallery) and captures follow them *)
InitAnyBrowser ==
  /\ meta = Empty /\ idbVideo = Empty /\ opfs = Empty /\ queue = Empty
  /\ clock = 0
  /\ hasStorage \in BOOLEAN /\ hasOPFS \in BOOLEAN /\ (hasOPFS => hasStorage)
  /\ MemoryInit
  /\ recorded = {}
  /\ invoked = [v \in Videos |-> 0]
  /\ uploaded = [v \in Videos |-> 0]
  /\ lastOp = [op |-> "none", id |-> "none", threw |-> FALSE, found |-> FALSE]
  /\ deleted = {}
  /\ crashes = 0 /\ retries = 0
  /\ faults = 0 /\ rejectedAt = "none"

NextInitialize == Load \/ LoadPersistThrows \/ LoadOpenDbFails \/ Capture(Videos)
SpecInitialize == InitAnyBrowser /\ [][NextInitialize]_vars

(* ============================== claims ================================= *)

(* C1  No duplicate upload across crash and restart: with ticks, crashes   *)
(* and restarts and no manual retry, the upload operation succeeds at most *)
(* once for every video.                                                   *)
C1_NoDuplicateUpload == \A v \in Videos : uploaded[v] <= 1

(* C2  Manual retry is a no-op on a completed video: while a retryVideo    *)
(* call that found the record completed is running, the record stays       *)
(* completed and no upload call is made for its id.                        *)
C2_RetryOnCompletedIsNoOp ==
  retryPc # "idle" /\ retryStatus = "completed" =>
    /\ retryId \in DOMAIN meta /\ meta[retryId].status = "completed"
    /\ \A p \in Invokers : ~(pc[p] = "upload" /\ Item(p).videoId = retryId)

(* C3  Success retains the payload: the step that persists a successful    *)
(* upload sets the record's status to completed with no error, the step    *)
(* after it removes the job, neither step changes a stored payload, and    *)
(* getVideo(id) then still returns the payload it returned before.         *)
C3_SuccessRetainsPayload ==
  [][\A p \in Invokers, id \in Videos :
       /\ pc[p] = "succeeded" /\ pc'[p] = "succSaved" /\ id = Item(p).videoId =>
            /\ id \in DOMAIN meta'
            /\ meta'[id].status = "completed" /\ meta'[id].error = Undefined
            /\ opfs' = opfs /\ idbVideo' = idbVideo
       /\ pc[p] = "succSaved" /\ pc'[p] = "loop" /\ id = Item(p).videoId =>
            /\ id \notin DOMAIN queue'
            /\ id \in DOMAIN meta' /\ meta'[id].status = "completed"
            /\ opfs' = opfs /\ idbVideo' = idbVideo
            /\ GetVideo(id)' = GetVideo(id) /\ GetVideo(id)' # Null]_vars

(* an upload succeeded and its pass is over: completed, no job, payload kept *)
C3_Witness ==
  /\ uploaded["v1"] = 1 /\ ~isProcessing
  /\ "v1" \in DOMAIN meta /\ meta["v1"].status = "completed"
  /\ "v1" \notin DOMAIN queue
  /\ GetVideo("v1") = Some(FinalBlob)

(* C4  Ceiling terminality: without manual retry the upload operation is   *)
(* called at most 5 times for a video; once its job has 5 failed attempts  *)
(* no further upload call is made for it, and (the interval firing and     *)
(* time passing) the record becomes failed and the job is removed.         *)
C4_CeilingTerminality ==
  /\ [](\A v \in Videos : invoked[v] <= MAX_RETRY_ATTEMPTS)
  /\ [][\A v \in DOMAIN queue :
          queue[v].attempts >= MAX_RETRY_ATTEMPTS => invoked'[v] = invoked[v]]_vars
  /\ \A v \in Videos :
       (v \in DOMAIN queue /\ queue[v].attempts >= MAX_RETRY_ATTEMPTS)
         ~> (v \notin DOMAIN queue /\ v \in DOMAIN meta /\ meta[v].status = "failed")

(* five upload calls failed and a later tick marked the record failed *)
C4_Witness ==
  /\ invoked["v1"] = MAX_RETRY_ATTEMPTS /\ uploaded["v1"] = 0
  /\ "v1" \notin DOMAIN queue
  /\ "v1" \in DOMAIN meta /\ meta["v1"].status = "failed"
  /\ meta["v1"].error = "Max retry attempts reached"

(* C5  Backoff delays: after the n-th consecutive failed attempt, n in     *)
(* 1..5, the job's nextRetry - lastAttempt is 1000, 2000, 4000, 8000,      *)
(* 16000 ms, that is BASE_DELAY * 2^(n-1).                                 *)
C5_BackoffDelays ==
  \A v \in DOMAIN queue :
    queue[v].attempts \in 1..MAX_RETRY_ATTEMPTS =>
      queue[v].nextRetry - queue[v].lastAttempt
        = BASE_DELAY * Pow2(queue[v].attempts - 1)

(* C6  Manual retry resets: the write retryVideo makes for a record that   *)
(* was failed when it was called leaves a job for the id with attempts = 0 *)
(* and nextRetry <= now, before the retry's own processQueue call.         *)
C6_RetryResets ==
  [][retryPc = "got" /\ retryPc' = "put" /\ retryStatus = "failed" =>
       /\ retryId \in DOMAIN queue'
       /\ queue'[retryId].attempts = 0
       /\ queue'[retryId].nextRetry <= clock']_vars

(* retryVideo has written the job of a record that failed at the ceiling *)
C6_Witness ==
  /\ retryPc = "put" /\ retryStatus = "failed"
  /\ invoked[retryId] = MAX_RETRY_ATTEMPTS
  /\ meta[retryId].error = "Max retry attempts reached"
  /\ retryId \in DOMAIN queue /\ queue[retryId].attempts = 0
  /\ queue[retryId].nextRetry <= clock

(* C7  Idempotent delete: a deleteVideo call on an id for which deleteVideo *)
(* has already returned raises no error, and when it returns neither the   *)
(* metadata store nor a payload store (OPFS file, IndexedDB record) holds  *)
(* anything for that id; this is so on the OPFS and on the IndexedDB       *)
(* backend.                                                                *)
C7_IdempotentDelete ==
  /\ lastOp.op = "deleteVideo" /\ lastOp.id \in deleted => ~lastOp.threw
  /\ delPc = "metaDeleted" /\ delAgain =>
       /\ delId \notin DOMAIN meta
       /\ delId \notin DOMAIN opfs
       /\ delId \notin DOMAIN idbVideo

(* a second deleteVideo on an id that had been saved has returned, on OPFS *)
C7_Witness ==
  /\ delPc = "metaDeleted" /\ delAgain /\ UseOPFS
  /\ lastOp = [op |-> "deleteVideo", id |-> delId, threw |-> FALSE, found |-> FALSE]
  /\ delId \in recorded

(* C8  Chunk order: while the chunks of a recording are appended one after *)
(* the other with saveVideoChunk, isFirstChunk true on the first only, the *)
(* stored payload is what the single-shot write of their concatenation     *)
(* stores, on the OPFS and on the IndexedDB backend.                       *)
C8_ChunkOrder ==
  recId # "none" /\ chunkPc = "idle" /\ chunksRef # << >> =>
    /\ GetVideo(recId) = Some(Blob(chunksRef))
    /\ IF UseOPFS
       THEN opfs = SaveToOPFS(opfs, recId, Blob(chunksRef))
       ELSE idbVideo = SaveToIndexedDB(idbVideo, recId, Blob(chunksRef))

(* three chunks, not all equal, have been appended *)
C8_Witness ==
  /\ recId # "none" /\ chunkPc = "idle" /\ Len(chunksRef) = 3
  /\ chunksRef[1] # chunksRef[2]
  /\ GetVideo(recId) = Some(Blob(chunksRef))

C9_OthersUnchanged(v) ==
  \A w \in Videos \ {v} :
    /\ Get(meta, w) = Get(meta, w)'
    /\ Get(queue, w) = Get(queue, w)'

(* C9  Absent entries: deleteVideo and removeFromQueue on an id that has   *)
(* no QueueJob return without error, leave the queue as it is and change   *)
(* no record of another video.                                             *)
C9_AbsentEntries ==
  [][/\ delPc = "idle" /\ delPc' = "payloadDeleted" /\ delId' \notin DOMAIN queue =>
          queue' = queue /\ C9_OthersUnchanged(delId')
     /\ delPc = "payloadDeleted" /\ delPc' = "metaDeleted" /\ delId \notin DOMAIN queue =>
          ~lastOp'.threw /\ queue' = queue /\ C9_OthersUnchanged(delId)
     /\ delPc = "metaDeleted" /\ delPc' = "idle" /\ delId \notin DOMAIN queue =>
          ~lastOp'.threw /\ queue' = queue /\ meta' = meta
     /\ lastOp' # lastOp /\ lastOp'.id \notin DOMAIN queue => ~lastOp'.threw]_vars

(* removeFromQueue returned for an id without a job while another video    *)
(* has its record and its job                                              *)
C9_Witness ==
  /\ lastOp.op = "removeFromQueue" /\ ~lastOp.threw /\ ~lastOp.found
  /\ lastOp.id \in deleted
  /\ \E w \in Videos \ {lastOp.id} : w \in DOMAIN queue /\ w \in DOMAIN meta

(* C10  processQueue excludes itself: at most one call is past the guard   *)
(* at any time, isProcessing is set exactly then, and a call from          *)
(* retryVideo or from startProcessing that finds the flag set changes no   *)
(* store and no state of the running pass.                                 *)
C10_MutualExclusion ==
  /\ [](/\ Cardinality({p \in Invokers : InBody(p)}) <= 1
        /\ isProcessing <=> \E p \in Invokers : InBody(p))
  /\ [][/\ retryPc = "put" /\ retryPc' = "idle" /\ isProcessing =>
             UNCHANGED <<durable, passVars>>
        /\ loadPc = "openQueue" /\ loadPc' = "idle" /\ isProcessing =>
             UNCHANGED <<durable, passVars>>]_vars

(* retryVideo is about to call processQueue while the pass started by      *)
(* startProcessing waits for its upload                                    *)
C10_Witness ==
  /\ retryPc = "put" /\ isProcessing
  /\ pc["start"] = "upload" /\ pc["timer"] = "idle" /\ pc["retry"] = "idle"

(* C11  Error containment in processQueue: a storage request or upload     *)
(* call that fails while a pass works on a job does not make processQueue  *)
(* reject.                                                                 *)
C11_NoPassRejects == rejectedAt \in {"none", "getAll"}

(* C12  Every pending video is eventually resolved: a record the capture   *)
(* created with status pending eventually has status completed or failed,  *)
(* while the interval fires, every request and upload call returns and     *)
(* nobody retries or deletes.                                              *)
C12_PendingResolves ==
  \A v \in Videos :
    (v \in DOMAIN meta /\ meta[v].status = "pending")
      ~> (v \in DOMAIN meta /\ meta[v].status \in {"completed", "failed"})

C14_DeleteRaceLeavesNothing ==
  [][\A p \in Invokers, id \in Videos :
       ( /\ pc[p] \in {"marked", "noBlob", "noBlobSaved", "upload", "succeeded",
                       "succSaved", "failQueued"}
         /\ id = Item(p).videoId
         /\ id \in deleted /\ delPc = "idle"
         /\ id \notin DOMAIN meta /\ id \notin DOMAIN queue )
       => (id \notin DOMAIN meta' /\ id \notin DOMAIN queue')]_vars

(* C15  Deletion ordering: a step that removes the metadata record of id   *)
(* is taken only when the payload of id is gone, so nobody reads a payload *)
(* whose metadata has been removed by deleteVideo.                         *)
C15_PayloadGoneFirst ==
  [][\A v \in Videos :
       (v \in DOMAIN meta /\ v \notin DOMAIN meta') => GetVideo(v) = Null]_vars

(* C16  Crash resilience of a recording in progress: after the process was *)
(* killed and the page reopened, every recording that is not running now   *)
(* and has a saved chunk has a VideoRecord with status pending.            *)
C16_RecordingSurvivesCrash ==
  (crashes >= 1 /\ PageLoaded) =>
    \A v \in recorded \ {recId, capId} :
      GetVideo(v) # Null => (v \in DOMAIN meta /\ meta[v].status = "pending")

(* C17  Backend selection is fixed: once an initialize() has completed,    *)
(* no step changes the payload backend in use (OPFS or IndexedDB).         *)
C17_BackendFixed == [][storageDb => (UseOPFS' = UseOPFS)]_vars

(* C18  Queue/status consistency: when no pass, no retryVideo call and no  *)
(* capture is running, a VideoRecord that has a QueueJob has status        *)
(* pending or uploading.                                                   *)
C18_JobsAreRetryable ==
  (~isProcessing /\ retryPc = "idle" /\ capPc = "idle") =>
    \A v \in DOMAIN queue \cap DOMAIN meta :
      meta[v].status \in {"pending", "uploading"}

(* C19  uploadAttempts is a lifetime counter: in every step the            *)
(* uploadAttempts of a VideoRecord grows by 1 when the step starts an      *)
(* attempt for that video and is unchanged otherwise; retryVideo, which    *)
(* resets the job's attempts, does not touch it.                           *)
C19_LifetimeCounter ==
  [][\A v \in Videos :
       (v \in DOMAIN meta /\ v \in DOMAIN meta') =>
         meta'[v].uploadAttempts =
           meta[v].uploadAttempts +
             (IF \E p \in Invokers :
                   /\ pc[p] = "attGot" /\ pc'[p] = "marked"
                   /\ Item(p).videoId = v
              THEN 1 ELSE 0)]_vars

(* an attempt has failed after retryVideo reset the job: the job counts    *)
(* fewer attempts than the record                                          *)
C19_Witness ==
  /\ ~isProcessing /\ retryPc = "idle" /\ retries >= 1
  /\ "v1" \in DOMAIN meta /\ "v1" \in DOMAIN queue
  /\ meta["v1"].uploadAttempts >= 2
  /\ queue["v1"].attempts < meta["v1"].uploadAttempts

(* C20  Finalized payloads are immutable: once saveVideo has written the   *)
(* payload of a recording, no later step changes the stored payload, the   *)
(* chunk saves still in flight when the recorder stopped included.         *)
C20_FinalizedImmutable ==
  [][\A v \in Videos :
       ( /\ v \in DOMAIN meta
         /\ (capId = v => capPc = "blobSaved")
         /\ GetVideo(v) # Null )
       => (GetVideo(v)' = GetVideo(v))]_vars

C22_FailedAttemptOutcome ==
  [][\A p \in Invokers, v \in Videos :
       /\ (pc[p] = "upload" /\ pc'[p] = "failQueued" /\ v = Item(p).videoId) =>
            /\ v \in DOMAIN queue /\ v \in DOMAIN queue'
            /\ queue'[v].attempts = queue[v].attempts + 1
            /\ queue'[v].lastAttempt = clock
       /\ (pc[p] = "failQueued" /\ pc'[p] = "loop" /\ v = Item(p).videoId) =>
            /\ v \in DOMAIN queue' /\ queue'[v] = queue[v]
            /\ v \in DOMAIN meta'
            /\ meta'[v].status = "pending"
            /\ meta'[v].error = queue'[v].error
            /\ meta'[v].error # Undefined]_vars

(* the second attempt has failed and its pass is over *)
C22_Witness ==
  /\ ~isProcessing /\ invoked["v1"] = 2 /\ uploaded["v1"] = 0
  /\ "v1" \in DOMAIN queue /\ queue["v1"].attempts = 2
  /\ queue["v1"].lastAttempt = clock
  /\ "v1" \in DOMAIN meta /\ meta["v1"].status = "pending"
  /\ meta["v1"].error = "Upload failed" /\ queue["v1"].error = "Upload failed"

(* C23  Missing payload is terminal: when the record exists and getVideo   *)
(* returns nothing during an attempt, no upload call is made, the record   *)
(* is saved as failed with the error "Video file not found", the job is    *)
(* removed, and no later tick makes an upload call for the id or queues it *)
(* again.                                                                  *)
C23_MissingPayloadTerminal ==
  [][\A v \in Videos :
       /\ \A p \in Invokers :
            /\ (pc[p] = "marked" /\ pc'[p] = "noBlob" /\ v = Item(p).videoId) =>
                 invoked'[v] = invoked[v]
            /\ (pc[p] = "noBlob" /\ pc'[p] = "noBlobSaved" /\ v = Item(p).videoId) =>
                 /\ invoked'[v] = invoked[v]
                 /\ v \in DOMAIN meta' /\ meta'[v].status = "failed"
                 /\ meta'[v].error = "Video file not found"
            /\ (pc[p] = "noBlobSaved" /\ pc'[p] = "loop" /\ v = Item(p).videoId) =>
                 /\ invoked'[v] = invoked[v]
                 /\ v \notin DOMAIN queue'
                 /\ v \in DOMAIN meta' /\ meta'[v].status = "failed"
       /\ ( /\ v \in DOMAIN meta /\ meta[v].error = "Video file not found"
            /\ v \notin DOMAIN queue ) =>
              /\ invoked'[v] = invoked[v]
              /\ v \notin DOMAIN queue'
              /\ v \in DOMAIN meta' /\ meta'[v] = meta[v]]_vars

(* the payload was written through the other backend: the attempt found    *)
(* none, its pass is over and a later pass is running                      *)
C23_Witness ==
  /\ "v1" \in DOMAIN meta /\ meta["v1"].status = "failed"
  /\ meta["v1"].error = "Video file not found"
  /\ "v1" \notin DOMAIN queue /\ invoked["v1"] = 0
  /\ "v1" \in DOMAIN opfs \cup DOMAIN idbVideo
  /\ pc["timer"] = "loop"

(* C24  Orphan jobs are cleaned up: when a pass finds a job eligible and   *)
(* reads no VideoRecord for it, below the ceiling or at it, the next step  *)
(* of the pass removes the job, makes no upload call and writes no record. *)
C24_OrphanJobsRemoved ==
  [][\A p \in Invokers, v \in Videos :
       /\ ( /\ pc[p] = "loop" /\ pc'[p] \in {"attGot", "maxGot"}
            /\ v = Item(p).videoId /\ v \notin DOMAIN meta ) =>
              metadata'[p] = Null
       /\ ( /\ pc[p] \in {"attGot", "maxGot"} /\ metadata[p] = Null
            /\ pc'[p] # pc[p] /\ v = Item(p).videoId ) =>
              /\ pc'[p] = "loop" /\ idx'[p] = idx[p] + 1
              /\ v \notin DOMAIN queue'
              /\ invoked' = invoked
              /\ meta' = meta]_vars

(* a tick has found the job eligible at the ceiling and read no record:    *)
(* the gallery removed the record after the fifth failure                  *)
C24_Witness ==
  \E p \in Invokers :
    /\ pc[p] = "maxGot" /\ metadata[p] = Null
    /\ Item(p).videoId = "v1" /\ Item(p).attempts = MAX_RETRY_ATTEMPTS
    /\ "v1" \in DOMAIN queue /\ "v1" \notin DOMAIN meta /\ "v1" \in deleted

(* C25  Backoff is respected: a job whose nextRetry is later than the time *)
(* at which a pass started is skipped by that pass, also at the ceiling:   *)
(* the step the pass takes on it makes no upload call and changes no job   *)
(* and no VideoRecord.                                                     *)
C25_BackoffRespected ==
  [][\A p \in Invokers :
       ( /\ pc[p] = "loop" /\ idx[p] <= Len(queueItems[p])
         /\ Item(p).nextRetry > passNow[p]
         /\ (pc'[p] # pc[p] \/ idx'[p] # idx[p]) ) =>
           /\ pc'[p] = "loop" /\ idx'[p] = idx[p] + 1
           /\ invoked' = invoked
           /\ queue' = queue /\ meta' = meta]_vars

(* a pass has skipped the job that has failed five times and is due later *)
C25_Witness ==
  \E p \in Invokers :
    /\ pc[p] = "loop" /\ idx[p] = 2
    /\ queueItems[p][1].attempts = MAX_RETRY_ATTEMPTS
    /\ queueItems[p][1].nextRetry > passNow[p]
    /\ "v1" \in DOMAIN queue /\ queue["v1"] = queueItems[p][1]
    /\ "v1" \in DOMAIN meta /\ meta["v1"].status = "pending"
    /\ invoked["v1"] = MAX_RETRY_ATTEMPTS

(* C26  Manual retry re-enters pending: when a retryVideo call made on a   *)
(* record with status failed returns, the record is not still failed with  *)
(* a QueueJob stored for it.                                               *)
C26_RetryLeavesFailed ==
  [][\A v \in Videos :
       ( /\ retryPc # "idle" /\ retryPc' = "idle"
         /\ v = retryId /\ retryStatus = "failed" ) =>
           ~( /\ v \in DOMAIN queue'
              /\ v \in DOMAIN meta' /\ meta'[v].status = "failed" )]_vars

(* C27  Manual retry is not delayed: a retryVideo call returns only at the *)
(* end of a processQueue pass that the call itself started, also when      *)
(* another pass is in flight at the moment of the call.                    *)
C27_RetryRunsItsPass ==
  [][(retryPc # "idle" /\ retryPc' = "idle" /\ retryId \in DOMAIN meta) =>
       (pc["retry"] = "loop" /\ pc'["retry"] = "idle")]_vars

(* C28  A hung upload is isolated: while the upload call for v1 may never  *)
(* return, the interval fires and every other call returns, a queued job   *)
(* of another video that has never been attempted is eventually attempted. *)
C28_HungUploadIsolated ==
  \A v \in Videos \ {"v1"} :
    (v \in DOMAIN queue /\ queue[v].attempts = 0 /\ invoked[v] = 0)
      ~> (invoked[v] >= 1)

(* C29  The error field is cleared exactly on completion: a VideoRecord    *)
(* with status completed has no error, and a step that removes the error   *)
(* of a record is the step that makes it completed; marking it uploading,  *)
(* saving a failure and retryVideo keep an error that was set.             *)
C29_ErrorClearedOnCompletion ==
  /\ [](\A v \in DOMAIN meta :
          meta[v].status = "completed" => meta[v].error = Undefined)
  /\ [][\A v \in Videos :
          ( /\ v \in DOMAIN meta /\ v \in DOMAIN meta'
            /\ meta[v].error # Undefined /\ meta'[v].error = Undefined ) =>
              (meta[v].status # "completed" /\ meta'[v].status = "completed")]_vars

(* after a failure retryVideo reset the job and the next attempt has       *)
(* started: the record is uploading and still carries the error            *)
C29_Witness ==
  /\ retries >= 1
  /\ "v1" \in DOMAIN meta /\ meta["v1"].status = "uploading"
  /\ meta["v1"].error = "Upload failed"
  /\ "v1" \in DOMAIN queue /\ queue["v1"].attempts = 0

(* C30  addToQueue is an upsert: every addToQueue(id) call (by the capture, *)
(* or by retryVideo when it read no job), also over a job with failed      *)
(* attempts, leaves exactly one QueueJob for id, with attempts = 0 and     *)
(* nextRetry = the time of the call, and changes no other job; the queue   *)
(* never lists two jobs of one video.                                      *)
C30_AddToQueueUpserts ==
  /\ [](\A i, j \in DOMAIN GetAllQueueItems :
          GetAllQueueItems[i].videoId = GetAllQueueItems[j].videoId => i = j)
  /\ [][\A v \in Videos :
          ( \/ capPc = "blobSaved" /\ capPc' = "idle" /\ v = capId
            \/ retryPc = "got" /\ retryPc' = "put" /\ retryItem = Null /\ v = retryId ) =>
              /\ v \in DOMAIN queue'
              /\ queue'[v] = [videoId |-> v, attempts |-> 0, lastAttempt |-> NullDate,
                              nextRetry |-> clock, error |-> Undefined]
              /\ \A w \in Videos \ {v} : Get(queue, w)' = Get(queue, w)]_vars

(* the capture's addToQueue has replaced a job that a retryVideo call had  *)
(* stored during the capture and whose only attempt had failed             *)
C30_Witness ==
  /\ ~isProcessing /\ capPc = "idle" /\ retryPc = "idle"
  /\ invoked["v1"] = 1 /\ uploaded["v1"] = 0
  /\ "v1" \in DOMAIN queue /\ queue["v1"].attempts = 0
  /\ queue["v1"].lastAttempt = NullDate /\ queue["v1"].nextRetry = clock
  /\ "v1" \in DOMAIN meta /\ meta["v1"].error = "Upload failed"

(* C31  First chunk starts fresh: a saveVideoChunk(id, X, true) call       *)
(* leaves the payload of id equal to X whatever was stored before, and a   *)
(* saveVideoChunk(id, X, false) call on an id without payload leaves it    *)
(* equal to X, on the OPFS and on the IndexedDB backend.                   *)
C31_FirstChunkStartsFresh ==
  [][\A v \in Videos, c \in Chunks :
       /\ (chunkPc = "write" /\ chunkPc' = "idle" /\ chunkCall = ChunkCall(v, c, TRUE)) =>
            (opfs'[v] = c /\ GetVideo(v)' = Some(c))
       /\ ( /\ chunkPc = "write" /\ chunkPc' = "idle"
            /\ chunkCall = ChunkCall(v, c, FALSE) /\ opfs[v] = << >> ) =>
              (opfs'[v] = c /\ GetVideo(v)' = Some(c))
       /\ (chunkPc = "idle" /\ chunkPc' = "stored" /\ chunkCall' = ChunkCall(v, c, TRUE)) =>
            (idbVideo'[v] = c /\ GetVideo(v)' = Some(c))
       /\ ( /\ chunkPc = "idle" /\ chunkPc' = "stored"
            /\ chunkCall' = ChunkCall(v, c, FALSE) /\ v \notin DOMAIN idbVideo ) =>
              (idbVideo'[v] = c /\ GetVideo(v)' = Some(c))]_vars

(* a first-chunk call is about to commit over a file that holds two chunks *)
C31_Witness ==
  /\ chunkPc = "write" /\ chunkCall # Null /\ chunkCall[1].isFirstChunk
  /\ chunkCall[1].videoId \in DOMAIN opfs
  /\ Len(opfs[chunkCall[1].videoId]) = 2

(* C32  Backend fallback: when the OPFS probe is absent or raises during   *)
(* initialize(), the call still succeeds and IndexedDB is the payload      *)
(* backend; a call in which IndexedDB was opened never fails; a capture    *)
(* writes its record to the IndexedDB metadata store on either backend.    *)
C32_BackendFallback ==
  [][/\ (loadPc = "openDb" /\ loadPc' # "openDb" /\ faults' = faults) =>
          /\ loadPc' = "openQueue" /\ storageDb'
          /\ ~supportsOPFS => ~UseOPFS'
     /\ (capPc = "metaSaved" /\ capPc' = "blobSaved") =>
          /\ capId \in DOMAIN meta
          /\ ~UseOPFS => idbVideo'[capId] = capBlob]_vars

(* C33  Job attempts stay within the ceiling: in every reachable state,    *)
(* whatever ticks, manual retries and addToQueue calls interleave, each    *)
(* stored job has 0 <= attempts <= 5 and a nextRetry date.                 *)
C33_AttemptsWithinCeiling ==
  \A v \in DOMAIN queue :
    /\ queue[v].attempts \in 0..MAX_RETRY_ATTEMPTS
    /\ queue[v].nextRetry # NullDate /\ queue[v].nextRetry \in 0..(MaxTime + calculateBackoff(MAX_RETRY_ATTEMPTS))

(* a job at the ceiling is stored while a manual retry has been made *)
C33_Witness ==
  /\ retries > 0
  /\ \E v \in DOMAIN queue : queue[v].attempts = MAX_RETRY_ATTEMPTS

(* C34  A manual retry's reset is not lost: when retryVideo, called while  *)
(* a pass is inside its attempt for the job (the record is uploading), has *)
(* reset the job to attempts = 0, and the attempt then fails, the job      *)
(* stored by the failure has                                               *)
(* attempts at most 1 and at most the first backoff; the snapshot's higher *)
(* count is not written over the reset.                                    *)
C34_ResetNotLost ==
  [][\A p \in Invokers, v \in Videos :
       ( /\ pc[p] = "upload" /\ pc'[p] = "failQueued"
         /\ Item(p).videoId = v /\ Item(p).attempts >= 1
         /\ retryPc = "put" /\ retryId = v /\ retryStatus = "uploading"
         /\ v \in DOMAIN queue /\ queue[v].attempts = 0 )
       => /\ queue'[v].attempts <= 1
          /\ queue'[v].nextRetry <= clock + calculateBackoff(1)]_vars

(* C35  retryAllFailed never re-uploads a finished video: while a          *)
(* retryAllFailed call is running, no upload call is made for a video that *)
(* has already been uploaded successfully (its record became completed).   *)
C35_RetryAllSkipsFinished ==
  [][\A v \in Videos :
       (failedList # Null /\ invoked'[v] # invoked[v]) => uploaded[v] = 0]_vars

(* C36  Chunked capture keeps a prefix on disk: while a recording runs,    *)
(* however its ondataavailable handlers interleave, the stored payload of  *)
(* the recording is the concatenation of the first k delivered chunks for  *)
(* some k.                                                                 *)
C36_StoredIsPrefix ==
  (recId # "none" /\ GetVideo(recId) # Null) =>
    \E k \in 0..Len(chunksRef) :
      GetVideo(recId)[1] = Blob(SubSeq(chunksRef, 1, k))

(* C37  The processing lock is always released: in no state is the         *)
(* isProcessing flag set while no processQueue pass is running, whether    *)
(* the last pass ended normally or because a storage request rejected; a   *)
(* later tick therefore starts a pass.                                     *)
C37_LockReleased == isProcessing => \E p \in Invokers : InBody(p)

(* a pass is running after an earlier pass was ended by a rejection *)
C37_Witness ==
  /\ rejectedAt # "none" /\ isProcessing
  /\ \E p \in Invokers : pc[p] = "loop"

(* C38  At most one periodic timer: after any sequence of initialize(),    *)
(* startProcessing() and stopProcessing() calls at most one interval timer *)
(* is active, it is the one whose handle the queue holds, and while the    *)
(* queue holds none (before the first start and after stopProcessing()) no *)
(* timer-triggered tick can start.                                         *)
C38_OneTimer ==
  /\ timers <= 1
  /\ processingInterval <=> timers = 1
  /\ ~processingInterval => ~ENABLED TimerTick

(* startProcessing() has just replaced an interval that was running *)
C38_Witness ==
  /\ lastOp.op = "startProcessing" /\ lastOp.found
  /\ timers = 1 /\ processingInterval

====
